---- MODULE Spec2Model ----
(***************************************************************************)
(* Model of ghostpad's local LLM completion subsystem.                     *)
(*                                                                         *)
(*  - the Host side of the completion protocol (src/app/window.rs,         *)
(*    src/app/completion.rs): generation counter, debounce timer,          *)
(*    in-flight flags, per-request worker thread and idle poller;          *)
(*  - the model store (src/llm/huggingface.rs): verification of a cached   *)
(*    artifact against its sidecar and the temp-file download, with its    *)
(*    progress events; parsing of a model reference; resolution of an      *)
(*    alias against the listing of a repository; two downloads of one      *)
(*    file at the same time; the cache under several references;           *)
(*  - the buffer signals and with_suppressed_completion                    *)
(*    (src/app/window.rs, src/app/completion.rs);                          *)
(*  - the LlmManager (src/llm/mod.rs);                                     *)
(*  - the ghost text of a Document (src/document.rs).                      *)
(***************************************************************************)
EXTENDS Integers, Sequences, FiniteSets, TLC

(***************************************************************************)
(* Bounds of the model.                                                    *)
(***************************************************************************)
MaxGen == 3          \* generation values explored by Spec
MaxReq == 2          \* completion requests spawned in one behaviour of Spec
MaxTime == 100       \* clock horizon (ms) of Spec
FairGen == 3         \* generation values and requests explored by FairSpec
FairReq == 1
StreakGen == 7       \* generation values and clock horizon of SpecDebounce
StreakTime == 540
TickMs == 90         \* largest clock step (ms)
NChunks == 2         \* chunks of the artifact the registry serves
MaxCalls == 3        \* calls made on the LlmManager in one behaviour
MaxChars == 1        \* characters of buffer text kept before the cursor
MaxRefLen == 5       \* characters of a reference string explored by SpecParse
MaxPolls == 1        \* empty polls of one request counted in SpecPoll
MaxBumps == 3        \* bumps of the counter in one behaviour of SpecCounter
MaxListing == 2      \* files in the listing of a repository
MaxStem == 3         \* characters of a file name before its extension
MaxAlias == 2        \* characters of an alias
MaxText == 4         \* characters of the buffer of a Document
MaxGhost == 2        \* characters of a ghost text
MaxSignalGen == 4    \* bumps of the counter in the view of the buffer signals
LatestGen == 2       \* bumps of the counter with two requests under fairness

(***************************************************************************)
(* Program constants.                                                      *)
(***************************************************************************)
DEBOUNCE_MS == 100
MAX_WAIT_MS == 500
FIM_MAX_TOKENS == 50

\* Sentinels.  completion_context writes the Qwen sentinels; DS_FIM_BEGIN
\* stands for the DeepSeek sentinel (full-width bars and U+2581 in the source).
FIM_PREFIX == "<|fim_prefix|>"
FIM_SUFFIX == "<|fim_suffix|>"
FIM_MIDDLE == "<|fim_middle|>"
DS_FIM_BEGIN == "<|fim_begin|>"

\* Values of max_completion_tokens the preferences can set.
TokenChoices == {30, 80}

\* Buffer text is a sequence of characters; a sentinel typed by the user is
\* one character of the model.
PrefixChoices == {<<>>, <<"a">>, <<DS_FIM_BEGIN>>}
SuffixChoices == {<<>>, <<"b">>}

None == [none |-> TRUE]

VARIABLES
    lim,                          \* limits of the explored behaviours
    now,                          \* Instant::now(), in ms
    completion_generation,
    manual_completion_inflight,
    auto_completion_running,
    completion_debounce,          \* pending glib timeout, or None
    last_completion_schedule,     \* Option<Instant>
    doc,                          \* buffer text before / after the cursor
    ghost,                        \* Document::ghost_range and its text
    status_label,
    toasts,                       \* toasts shown so far
    reqs,                         \* spawned completion requests
    llm_lock,                     \* holder of Mutex<LlmManager>
    llm_poisoned,
    max_completion_tokens,        \* LlmManager.config.max_completion_tokens
    settings_max_tokens,          \* AppState.settings.llm.max_completion_tokens
    host_wait,                    \* the Host is inside Mutex::lock, or 0
    preload,                      \* preload worker and its poller
    calls,                        \* history: calls of LlmManager::complete
    applied,                      \* history: results the Host acted on
    streak_start,                 \* history (lim.track): first text change of the streak
    last_change,                  \* history (lim.track): time of the last text change
    fs,                           \* models directory: path -> content
    dl,                           \* the call of download_with_progress in progress
    mgr,                          \* LlmManager: config, llamacpp, loaded_model
    custom_file,                  \* a file exists at the override path
    mcall,                        \* history: the last call made on the LlmManager
    hf,                           \* a reference string and HuggingFaceModel::parse of it
    resolver,                     \* a registry listing, an alias and resolve_hf_alias of them
    document,                     \* Document: buffer text, cursor, ghost_range
    counter,                      \* the Cell<u64> completion_generation at full width
    ensure,                       \* one ensure_model_loaded for a reference, step by step
    xfer,                         \* two threads inside download_with_progress
    cache,                        \* the models directory under several references
    supp                          \* with_suppressed_completion and the buffer signals

hostVars == <<now, completion_generation, manual_completion_inflight,
              auto_completion_running, completion_debounce,
              last_completion_schedule, doc, ghost, status_label, toasts>>
workVars == <<reqs, llm_lock, llm_poisoned, max_completion_tokens,
              settings_max_tokens, host_wait, preload>>
histVars == <<calls, applied, streak_start, last_change>>
storeVars == <<fs, dl>>
mgrVars == <<mgr, custom_file, mcall>>
libVars == <<hf, resolver, document, counter>>
extVars == <<ensure, xfer, cache, supp>>
vars == <<lim, hostVars, workVars, histVars, storeVars, mgrVars, libVars, extVars>>

Min(a, b) == IF a <= b THEN a ELSE b

Contains(s, ch) == \E i \in 1..Len(s) : s[i] = ch

\* The last MaxChars characters of s.
Clip(s) == IF Len(s) <= MaxChars THEN s ELSE SubSeq(s, Len(s) - MaxChars + 1, Len(s))

NoGhost == [active |-> FALSE, req |-> 0, text |-> <<>>]


(***************************************************************************)
(* Host: generation counter, context, scheduling.                          *)
(***************************************************************************)
\* The Host thread is not blocked inside lock_llm_manager.
HostIdle == host_wait = 0

\* A u64 is a sequence of four 16-bit limbs, most significant first.
LimbBase == 65536
Limbs == 1..4

U64_ZERO == [i \in Limbs |-> 0]
U64_MAX == [i \in Limbs |-> LimbBase - 1]

\* The u64 of a small natural number, and back (the two high limbs are 0).
ToU64(n) == [i \in Limbs |-> IF i = 4 THEN n % LimbBase
                             ELSE IF i = 3 THEN n \div LimbBase ELSE 0]
FromU64(v) == v[3] * LimbBase + v[4]

\* a < b on u64.
LessU64(a, b) ==
    \E k \in Limbs : a[k] < b[k] /\ \A i \in Limbs : i < k => a[i] = b[i]

\* A variant of wrapping_add_one that adds nothing.
wrapping_add_zero(v) == v

\* u64::wrapping_add(1): the carry runs through the limbs and is dropped at
\* the top.
wrapping_add_one(v) ==
    LET open == {i \in Limbs : v[i] # LimbBase - 1} IN
    IF open = {} THEN U64_ZERO
    ELSE LET k == CHOOSE i \in open : \A j \in open : j <= i
         IN  [i \in Limbs |-> IF i < k THEN v[i]
                              ELSE IF i = k THEN v[i] + 1 ELSE 0]

\* let next = self.completion_generation.get().wrapping_add(1), on the
\* values the completion protocol explores (below lim.gen).
bump_completion_generation(g) == FromU64(wrapping_add_one(ToU64(g)))

\* A variant of IsCurrent that accepts every generation.
IsCurrentAlways(generation, current) == TRUE

\* generation != self.completion_generation.get(), negated: the check at
\* the entry of request_llm_completion_with_generation and in its poller.
IsCurrent(generation, current) == generation = current

\* Text after the cursor: the ghost text, when shown, is part of the buffer.
TextAfterCursor == ghost.text \o doc.suffix

completion_context ==
    LET prefix == doc.prefix
        suffix == TextAfterCursor
    IN  IF suffix = <<>>
        THEN prefix
        ELSE <<FIM_PREFIX>> \o prefix \o <<FIM_SUFFIX>> \o suffix \o <<FIM_MIDDLE>>

\* let is_fim = context.contains(DeepSeek sentinel)
is_fim_context(context) == Contains(context, DS_FIM_BEGIN)

\* The worker's max_tokens.
worker_max_tokens(is_fim, configured) ==
    IF is_fim THEN Min(FIM_MAX_TOKENS, configured) ELSE configured

should_force(last) == last # None /\ now - last.t >= MAX_WAIT_MS

\* schedule_auto_completion(generation), given the flag, the timer and the
\* streak start as the calling handler left them; yields the new timer and
\* streak start.
schedule_auto_completion(generation, manual, debounce, last) ==
    IF manual
    THEN [debounce |-> debounce, last |-> last]
    ELSE LET force == should_force(last)
             delay_ms == IF force THEN 0 ELSE DEBOUNCE_MS
         IN  [debounce |-> [none |-> FALSE, generation |-> generation,
                            due |-> now + delay_ms],
              last |-> IF debounce = None \/ force
                       THEN [none |-> FALSE, t |-> now] ELSE last]

NewRequest(trigger, generation, current, context) ==
    [trigger |-> trigger, generation |-> generation,
     snapshot |-> current,          \* self.completion_generation.clone()
     context |-> context, is_fim |-> is_fim_context(context),
     pc |-> "check", result |-> "none", chan |-> "empty", polling |-> TRUE,
     empty_polls |-> 0]             \* history: polls that found nothing

\* request_llm_completion_with_generation(trigger, generation) up to the
\* spawn of the worker and the installation of the poller; current is the
\* counter as the calling handler left it.
request_llm_completion_with_generation(trigger, generation, current) ==
    IF ~IsCurrent(generation, current)
    THEN [manual |-> manual_completion_inflight, auto |-> auto_completion_running,
          status |-> status_label, reqs |-> reqs]
    ELSE IF trigger = "Automatic" /\ completion_context = <<>>
    THEN [manual |-> manual_completion_inflight, auto |-> FALSE,
          status |-> status_label, reqs |-> reqs]
    ELSE [manual |-> (trigger = "Manual") \/ manual_completion_inflight,
          auto |-> (trigger = "Automatic") \/ auto_completion_running,
          status |-> "Generating completion...",
          reqs |-> Append(reqs, NewRequest(trigger, generation, current,
                                           completion_context))]

\* A buffer change made by the user: hook_buffer_signals -> handle_text_change
\* with completion_suppression_depth = 0.
TextChange(p, s) ==
    /\ HostIdle
    /\ completion_generation < lim.gen
    /\ [prefix |-> p, suffix |-> s] # doc
    /\ LET generation == bump_completion_generation(completion_generation)
           sched == schedule_auto_completion(generation, FALSE, None,
                                             last_completion_schedule)
       IN  /\ completion_generation' = generation
           /\ manual_completion_inflight' = FALSE
           /\ completion_debounce' = sched.debounce
           /\ last_completion_schedule' = sched.last
    /\ doc' = [prefix |-> p, suffix |-> s]
    /\ ghost' = NoGhost
    /\ status_label' = IF ghost.active THEN "Suggestion dismissed" ELSE status_label
    /\ streak_start' = IF ~lim.track THEN streak_start
                       ELSE IF streak_start = -1 \/ now - last_change >= DEBOUNCE_MS
                       THEN now ELSE streak_start
    /\ last_change' = IF lim.track THEN now ELSE last_change
    /\ UNCHANGED <<lim, libVars, extVars, now, auto_completion_running, toasts, workVars,
                   calls, applied, storeVars, mgrVars>>

\* Ctrl+Space: request_llm_completion.  With an empty context the handler
\* only shows a toast and changes nothing else.
ManualRequest ==
    /\ HostIdle
    /\ completion_context # <<>>
    /\ completion_generation < lim.gen
    /\ Len(reqs) < lim.req
    /\ LET generation == bump_completion_generation(completion_generation)
           r == request_llm_completion_with_generation("Manual", generation,
                                                       generation)
       IN  /\ completion_generation' = generation
           /\ manual_completion_inflight' = r.manual
           /\ auto_completion_running' = r.auto
           /\ status_label' = r.status
           /\ reqs' = r.reqs
    /\ streak_start' = -1
    /\ UNCHANGED <<lim, libVars, extVars, now, completion_debounce, last_completion_schedule,
                   doc, ghost, toasts, llm_lock, llm_poisoned,
                   max_completion_tokens, settings_max_tokens, host_wait,
                   preload, calls, applied, last_change, storeVars, mgrVars>>

\* The debounce timeout installed by schedule_auto_completion fires.
DebounceFire ==
    /\ HostIdle
    /\ completion_debounce # None
    /\ completion_debounce.due <= now
    /\ completion_debounce' = None
    /\ last_completion_schedule' = None
    /\ IF manual_completion_inflight
       THEN UNCHANGED <<manual_completion_inflight, auto_completion_running,
                        status_label, reqs, streak_start>>
       ELSE LET r == request_llm_completion_with_generation(
                         "Automatic", completion_debounce.generation,
                         completion_generation)
            IN  /\ Len(r.reqs) <= lim.req
                /\ manual_completion_inflight' = r.manual
                /\ auto_completion_running' = r.auto
                /\ status_label' = r.status
                /\ reqs' = r.reqs
                /\ streak_start' = -1
    /\ UNCHANGED <<lim, libVars, extVars, now, completion_generation, doc, ghost, toasts,
                   llm_lock, llm_poisoned, max_completion_tokens,
                   settings_max_tokens, host_wait, preload,
                   calls, applied, last_change, storeVars, mgrVars>>

\* Tab with ghost text shown: accept_current_completion.
AcceptGhost ==
    /\ HostIdle
    /\ ghost.active
    /\ completion_generation < lim.gen
    /\ LET generation == bump_completion_generation(completion_generation)
           sched == schedule_auto_completion(generation,
                        manual_completion_inflight, completion_debounce,
                        last_completion_schedule)
       IN  /\ completion_generation' = generation
           /\ completion_debounce' = sched.debounce
           /\ last_completion_schedule' = sched.last
    /\ doc' = [doc EXCEPT !.prefix = Clip(doc.prefix \o ghost.text)]
    /\ ghost' = NoGhost
    /\ status_label' = "Completion accepted"
    /\ UNCHANGED <<lim, libVars, extVars, now, manual_completion_inflight, auto_completion_running,
                   toasts, workVars, histVars, storeVars, mgrVars>>

\* Escape, or a cursor move, with ghost text shown: cancel_current_completion.
CancelGhost ==
    /\ HostIdle
    /\ ghost.active
    /\ ghost' = NoGhost
    /\ status_label' = "Suggestion dismissed"
    /\ UNCHANGED <<lim, libVars, extVars, now, completion_generation, manual_completion_inflight,
                   auto_completion_running, completion_debounce,
                   last_completion_schedule, doc, toasts, workVars, histVars,
                   storeVars, mgrVars>>

\* Time passes; a pending timeout fires when it is due, not later.
Tick ==
    /\ now < lim.time
    /\ (HostIdle /\ completion_debounce # None) => completion_debounce.due > now
    /\ now' = IF completion_debounce # None /\ completion_debounce.due > now
                 /\ completion_debounce.due < now + TickMs
              THEN completion_debounce.due ELSE now + TickMs
    /\ UNCHANGED <<lim, libVars, extVars, completion_generation, manual_completion_inflight,
                   auto_completion_running, completion_debounce,
                   last_completion_schedule, doc, ghost, status_label, toasts,
                   workVars, histVars, storeVars, mgrVars>>


(***************************************************************************)
(* Worker thread and idle poller of one completion request.                *)
(***************************************************************************)
\* generation != completion_generation.get() inside the worker closure: the
\* closure owns the Cell cloned at spawn time.
WorkerStale(r) == r.generation # r.snapshot

\* First check of the worker, before llm_manager.lock().
WorkerCheck(i) ==
    /\ i \in DOMAIN reqs
    /\ reqs[i].pc = "check"
    /\ reqs' = IF WorkerStale(reqs[i])
               THEN [reqs EXCEPT ![i].pc = "done", ![i].result = "err_cancelled",
                                 ![i].chan = "err_cancelled"]
               ELSE [reqs EXCEPT ![i].pc = "lock"]
    /\ UNCHANGED <<lim, libVars, extVars, hostVars, llm_lock, llm_poisoned, max_completion_tokens,
                   settings_max_tokens, host_wait, preload, histVars, storeVars, mgrVars>>

\* A variant of mutex_available that lets every thread in.
mutex_available_always(holder) == TRUE

\* Mutex::lock returns only when no thread holds the guard.
mutex_available(holder) == holder = 0

\* llm_manager.lock() returns; second check; max_tokens; manager.complete
\* is entered.
WorkerLock(i) ==
    /\ i \in DOMAIN reqs
    /\ reqs[i].pc = "lock"
    /\ mutex_available(llm_lock)
    /\ IF llm_poisoned
       THEN /\ reqs' = [reqs EXCEPT ![i].pc = "done", ![i].result = "err_lock",
                                    ![i].chan = "err_lock"]
            /\ UNCHANGED <<llm_lock, calls>>
       ELSE IF WorkerStale(reqs[i])
       THEN /\ reqs' = [reqs EXCEPT ![i].pc = "done", ![i].result = "err_cancelled",
                                    ![i].chan = "err_cancelled"]
            /\ UNCHANGED <<llm_lock, calls>>
       ELSE /\ reqs' = [reqs EXCEPT ![i].pc = "complete"]
            /\ llm_lock' = i
            /\ calls' = calls \cup
                 {[req |-> i,
                   superseded |-> ~IsCurrent(reqs[i].generation, completion_generation),
                   configured |-> max_completion_tokens,
                   max_tokens |-> worker_max_tokens(reqs[i].is_fim,
                                                    max_completion_tokens)]}
    /\ UNCHANGED <<lim, libVars, extVars, hostVars, llm_poisoned, max_completion_tokens,
                   settings_max_tokens, host_wait, preload, applied,
                   streak_start, last_change, storeVars, mgrVars>>

\* manager.complete returns, the guard is dropped, tx.send(result).
WorkerComplete(i, outcome) ==
    /\ i \in DOMAIN reqs
    /\ reqs[i].pc = "complete"
    /\ reqs' = [reqs EXCEPT ![i].pc = "done", ![i].result = outcome,
                            ![i].chan = outcome]
    /\ llm_lock' = 0
    /\ UNCHANGED <<lim, libVars, extVars, hostVars, llm_poisoned, max_completion_tokens,
                   settings_max_tokens, host_wait, preload, histVars, storeVars, mgrVars>>

\* The worker panics inside manager.complete: the guard poisons the mutex
\* and tx is dropped without a send.
WorkerPanic(i) ==
    /\ i \in DOMAIN reqs
    /\ reqs[i].pc = "complete"
    /\ reqs' = [reqs EXCEPT ![i].pc = "done", ![i].chan = "disconnected"]
    /\ llm_lock' = 0
    /\ llm_poisoned' = TRUE
    /\ UNCHANGED <<lim, libVars, extVars, hostVars, max_completion_tokens, settings_max_tokens,
                   host_wait, preload, histVars, storeVars, mgrVars>>

\* The Host acts on a result of the current generation.
ApplyResult(i) ==
    LET r == reqs[i] IN
    CASE r.chan = "ok_text" ->
           /\ ghost' = [active |-> TRUE, req |-> i, text |-> <<"c">>]
           /\ status_label' = "Suggestion ready (Tab to accept, Esc to dismiss)"
           /\ UNCHANGED toasts
      [] r.chan = "ok_empty" ->
           /\ status_label' = ""
           /\ UNCHANGED <<ghost, toasts>>
      [] r.chan = "err_cancelled" ->
           /\ status_label' = ""
           /\ UNCHANGED <<ghost, toasts>>
      [] OTHER ->
           /\ status_label' = "Completion error"
           /\ toasts' = IF r.trigger = "Manual"
                        THEN toasts \cup {"Completion failed"} ELSE toasts
           /\ UNCHANGED ghost

\* A variant of flag_after_poll that keeps the flag of a stale request.
flag_after_poll_if_current(r, trigger, flag) ==
    IF r.trigger = trigger /\ IsCurrent(r.generation, completion_generation)
    THEN FALSE ELSE flag

\* "Clear completion flags regardless of staleness": the value of the flag
\* of the given trigger after the poller of request r has received.
flag_after_poll(r, trigger, flag) ==
    IF r.trigger = trigger THEN FALSE ELSE flag

\* A variant of poll_continues that never takes a result off the channel.
poll_continues_always(chan) == TRUE

\* A variant of poll_continues that also goes on after a disconnect.
poll_continues_on_disconnect(chan) == chan \in {"empty", "disconnected"}

\* The idle callback returns ControlFlow::Continue: rx.try_recv() is
\* Err(TryRecvError::Empty).
poll_continues(chan) == chan = "empty"

\* One run of the idle callback in which rx.try_recv() is Empty: nothing
\* is touched and the callback stays installed.
PollerEmpty(i) ==
    /\ HostIdle
    /\ i \in DOMAIN reqs
    /\ reqs[i].polling
    /\ poll_continues(reqs[i].chan)
    /\ reqs[i].empty_polls < MaxPolls
    /\ reqs' = [reqs EXCEPT ![i].empty_polls = @ + 1]
    /\ UNCHANGED <<lim, libVars, extVars, hostVars, llm_lock, llm_poisoned,
                   max_completion_tokens, settings_max_tokens, host_wait,
                   preload, histVars, storeVars, mgrVars>>

\* One run of the idle callback in which rx.try_recv() is not Empty.
Poller(i) ==
    /\ HostIdle
    /\ i \in DOMAIN reqs
    /\ reqs[i].polling
    /\ ~poll_continues(reqs[i].chan)
    /\ reqs' = [reqs EXCEPT ![i].polling = FALSE]
    /\ manual_completion_inflight' =
           flag_after_poll(reqs[i], "Manual", manual_completion_inflight)
    /\ auto_completion_running' =
           flag_after_poll(reqs[i], "Automatic", auto_completion_running)
    /\ IF reqs[i].chan # "disconnected"
          /\ IsCurrent(reqs[i].generation, completion_generation)
       THEN /\ ApplyResult(i)
            /\ applied' = applied \cup {[req |-> i, outcome |-> reqs[i].chan]}
       ELSE UNCHANGED <<ghost, status_label, toasts, applied>>
    /\ UNCHANGED <<lim, libVars, extVars, now, completion_generation, completion_debounce,
                   last_completion_schedule, doc, llm_lock, llm_poisoned,
                   max_completion_tokens, settings_max_tokens, host_wait,
                   preload, calls, streak_start, last_change, storeVars, mgrVars>>


(***************************************************************************)
(* Preload of the model at start-up, and configuration changes.            *)
(***************************************************************************)
\* The preload worker: llm_manager.lock().
PreloadLock ==
    /\ preload.pc = "lock"
    /\ mutex_available(llm_lock)
    /\ IF llm_poisoned
       THEN /\ preload' = [preload EXCEPT !.pc = "done", !.chan = "err"]
            /\ UNCHANGED llm_lock
       ELSE /\ preload' = [preload EXCEPT !.pc = "complete"]
            /\ llm_lock' = -1
    /\ UNCHANGED <<lim, libVars, extVars, hostVars, reqs, llm_poisoned, max_completion_tokens,
                   settings_max_tokens, host_wait, histVars, storeVars, mgrVars>>

\* manager.complete("test", 1) returns in the preload worker.
PreloadComplete(outcome) ==
    /\ preload.pc = "complete"
    /\ preload' = [preload EXCEPT !.pc = "done", !.chan = outcome]
    /\ llm_lock' = 0
    /\ UNCHANGED <<lim, libVars, extVars, hostVars, reqs, llm_poisoned, max_completion_tokens,
                   settings_max_tokens, host_wait, histVars, storeVars, mgrVars>>

\* buffer.char_count() > 0
BufferNonEmpty == doc.prefix \o TextAfterCursor # <<>>

\* The preload poller receives the result.
PreloadPoll ==
    /\ HostIdle
    /\ preload.polling
    /\ preload.chan # "empty"
    /\ preload' = [preload EXCEPT !.polling = FALSE]
    /\ IF preload.chan = "ok" /\ BufferNonEmpty
       THEN /\ completion_generation < lim.gen
            /\ LET generation == bump_completion_generation(completion_generation)
                   sched == schedule_auto_completion(generation,
                                manual_completion_inflight, completion_debounce,
                                last_completion_schedule)
               IN  /\ completion_generation' = generation
                   /\ completion_debounce' = sched.debounce
                   /\ last_completion_schedule' = sched.last
       ELSE UNCHANGED <<completion_generation, completion_debounce,
                        last_completion_schedule>>
    /\ UNCHANGED <<lim, libVars, extVars, now, manual_completion_inflight, auto_completion_running,
                   doc, ghost, status_label, toasts, reqs, llm_lock, llm_poisoned,
                   max_completion_tokens, settings_max_tokens, host_wait,
                   histVars, storeVars, mgrVars>>

\* refresh_llm_manager_config once lock_llm_manager has returned.
refresh_llm_manager_config(tokens) ==
    IF llm_poisoned THEN max_completion_tokens ELSE tokens

\* The preferences change max_completion_tokens: update_max_completion_tokens,
\* which ends in refresh_llm_manager_config and so in a blocking
\* llm_manager.lock() on the Host thread.
ConfigChange(tokens) ==
    /\ HostIdle
    /\ settings_max_tokens # tokens
    /\ settings_max_tokens' = tokens
    /\ IF mutex_available(llm_lock)
       THEN /\ max_completion_tokens' = refresh_llm_manager_config(tokens)
            /\ UNCHANGED host_wait
       ELSE /\ host_wait' = 1
            /\ UNCHANGED max_completion_tokens
    /\ UNCHANGED <<lim, libVars, extVars, hostVars, reqs, llm_lock, llm_poisoned, preload,
                   histVars, storeVars, mgrVars>>

\* The blocked Host obtains the lock and finishes the handler.
HostResume ==
    /\ host_wait # 0
    /\ mutex_available(llm_lock)
    /\ max_completion_tokens' = refresh_llm_manager_config(settings_max_tokens)
    /\ host_wait' = 0
    /\ UNCHANGED <<lim, libVars, extVars, hostVars, reqs, llm_lock, llm_poisoned,
                   settings_max_tokens, preload, histVars, storeVars, mgrVars>>

(***************************************************************************)
(* The model store: ModelDownloader over the models directory.             *)
(***************************************************************************)
\* A file name is the sequence of its dot-separated parts; the models
\* directory is flat, so a path is a file name.
Names == {<<"file", "gguf">>, <<"model", "tmp">>}

\* What a path holds: nothing, a file of chunks, or a sidecar.
Absent == [absent |-> TRUE]

File(bytes) == [bytes |-> bytes]

\* The bytes of a file are a sequence of 64 KiB chunks.
RemoteBytes == [i \in 1..NChunks |-> i]          \* what the registry serves
OldBytes == [i \in 1..NChunks |-> 100 + i]       \* an earlier finished transfer
PartialBytes == <<RemoteBytes[1]>>               \* an interrupted transfer

\* Sha256 is modelled as collision-free: the digest names the bytes.
sha256(bytes) == [digest |-> bytes]

\* A sidecar that fs::read or serde_json::from_slice rejects.
Garbage == [garbage |-> TRUE]

\* serde_json::to_string_pretty(&DownloadMetadata { sha256, etag })
write_metadata(sha256_hex, etag) == [sha256 |-> sha256_hex, etag |-> etag]

output_path(name) == name

\* A variant of temp_path that streams into the final path.
temp_path_in_place(name) == output_path(name)

\* output_path.with_extension("tmp")
temp_path(name) ==
    IF Len(name) > 1
    THEN SubSeq(name, 1, Len(name) - 1) \o <<"tmp">>
    ELSE name \o <<"tmp">>

\* models_dir.join(format!("{}.meta.json", filename))
metadata_path(name) == name \o <<"meta", "json">>

Paths == UNION {{output_path(n), temp_path(n), metadata_path(n)} : n \in Names}

exists(disk, path) == disk[path] # Absent

\* A variant of verify_existing_file_internal that does not hash the file.
verify_without_hashing(disk, path, meta) ==
    IF ~exists(disk, path) \/ ~exists(disk, meta) THEN FALSE
    ELSE disk[meta] # Garbage

\* A variant of verify_existing_file_internal that trusts a file whose
\* sidecar is missing or does not parse.
verify_trusting_without_sidecar(disk, path, meta) ==
    IF ~exists(disk, path) THEN FALSE
    ELSE IF ~exists(disk, meta) \/ disk[meta] = Garbage THEN TRUE
    ELSE sha256(disk[path].bytes) = disk[meta].sha256

\* verify_existing_file_internal, with Ok(false) and Err(_) both FALSE, as
\* each of its callers matches them.
verify_existing_file_internal(disk, path, meta) ==
    IF ~exists(disk, path) \/ ~exists(disk, meta) THEN FALSE
    ELSE IF disk[meta] = Garbage THEN FALSE
    ELSE sha256(disk[path].bytes) = disk[meta].sha256

is_downloaded(disk, name) ==
    verify_existing_file_internal(disk, output_path(name), metadata_path(name))

get_path(disk, name) ==
    IF verify_existing_file_internal(disk, output_path(name), metadata_path(name))
    THEN [some |-> output_path(name)] ELSE None

\* The state of the cache entry of name, in the words of the store's
\* state machine.
CacheState(disk, name) ==
    IF ~exists(disk, output_path(name)) THEN "Absent"
    ELSE IF ~exists(disk, metadata_path(name)) \/ disk[metadata_path(name)] = Garbage
    THEN "PresentUnverified"
    ELSE IF disk[metadata_path(name)].sha256 = sha256(disk[output_path(name)].bytes)
    THEN "PresentVerified"
    ELSE "Mismatch"

\* api_requests, http_requests and hashes count what the call has done:
\* requests to the model API, requests for the file, full hashes of a file.
\* A DownloadProgress value handed to the progress callback.
DownloadProgress(phase, downloaded, total) ==
    [phase |-> phase, downloaded |-> downloaded, total |-> total]

IdleDownload ==
    [pc |-> "idle", name |-> <<>>, entry |-> "none", header |-> None,
     expected_hash |-> None, total_size |-> None,
     events |-> <<>>,               \* history: what the progress callback received
     downloaded_bytes |-> 0, hasher |-> <<>>, http_requests |-> 0,
     api_requests |-> 0, hashes |-> 0, result |-> "none"]

Return(value) == [dl EXCEPT !.pc = "done", !.result = value]

\* !self.file.contains('/') && !self.file.contains('.'), on the file name
\* of the reference.
needs_filename_resolution(file) == Len(file) = 1

\* References with an alias in place of the file name.
Aliases == {<<"q4">>}

\* What resolve_hf_alias may return for an alias: a GGUF file of the
\* repository, or an error (None).
Resolutions == {[some |-> n] : n \in {m \in Names : m[Len(m)] = "gguf"}} \cup {None}

\* A variant of Preparing that reports the transfer phase at once.
PreparingAsDownloading == DownloadProgress("Downloading", 0, None)

\* progress(DownloadProgress { phase: Preparing, downloaded: 0, total: None })
Preparing == DownloadProgress("Preparing", 0, None)

\* download_with_progress(model) is called: materialize_filename, file
\* name, create_dir_all.  resolution is the answer of the model API, asked
\* only for an alias.
DlStart(file, resolution) ==
    /\ dl.pc = "idle"
    /\ IF ~needs_filename_resolution(file)
       THEN dl' = [IdleDownload EXCEPT !.pc = "verify", !.name = file,
                                       !.entry = CacheState(fs, file),
                                       !.events = <<Preparing>>]
       ELSE IF resolution = None
       THEN dl' = [IdleDownload EXCEPT !.pc = "done", !.result = "err",
                                       !.api_requests = 1]
       ELSE dl' = [IdleDownload EXCEPT !.pc = "verify", !.name = resolution.some,
                                       !.entry = CacheState(fs, resolution.some),
                                       !.api_requests = 1,
                                       !.events = <<Preparing>>]
    /\ UNCHANGED <<lim, libVars, extVars, hostVars, workVars, histVars, mgrVars, fs>>

\* Full hashes of the file that verify_existing_file_internal computes.
hash_computations(disk, path, meta) ==
    IF ~exists(disk, path) \/ ~exists(disk, meta) THEN 0
    ELSE IF disk[meta] = Garbage THEN 0
    ELSE 1

\* The events of compute_sha256_with_progress over a file of the given
\* size: one before the first read and one after every read.
hashing_events(file_size) ==
    [k \in 1..(file_size + 1) |->
        DownloadProgress("VerifyingExisting", k - 1, [some |-> file_size])]

\* The events of verify_existing_file_with_progress: none unless the file is
\* hashed.
verifying_events(disk, path, meta) ==
    IF hash_computations(disk, path, meta) = 0 THEN <<>>
    ELSE hashing_events(Len(disk[path].bytes))

\* A variant of finished_cached that reports no total.
finished_cached_without_total(file_size) ==
    DownloadProgress("Finished", file_size, None)

\* progress(DownloadProgress { phase: Finished, downloaded: file_size,
\*                             total: Some(file_size) })
finished_cached(file_size) ==
    DownloadProgress("Finished", file_size, [some |-> file_size])

\* if output_path.exists() { match verify_existing_file_with_progress ... }
\* up to the removal of the stale file.
DlVerify ==
    /\ dl.pc = "verify"
    /\ LET path == output_path(dl.name)
           meta == metadata_path(dl.name)
       IN
       IF ~exists(fs, path)
       THEN /\ dl' = [dl EXCEPT !.pc = "request"]
            /\ UNCHANGED fs
       ELSE IF verify_existing_file_internal(fs, path, meta)
       THEN /\ dl' = [Return("ok") EXCEPT
                         !.hashes = @ + 1,
                         !.events = @ \o verifying_events(fs, path, meta)
                                      \o <<finished_cached(Len(fs[path].bytes))>>]
            /\ UNCHANGED fs
       ELSE /\ dl' = [dl EXCEPT !.pc = "remove_meta",
                                !.hashes = @ + hash_computations(fs, path, meta),
                                !.events = @ \o verifying_events(fs, path, meta)]
            /\ fs' = [fs EXCEPT ![path] = Absent]
    /\ UNCHANGED <<lim, libVars, extVars, hostVars, workVars, histVars, mgrVars>>

\* A variant of DlRemoveMeta that leaves the stale sidecar in place.
DlKeepMeta ==
    /\ dl.pc = "remove_meta"
    /\ dl' = [dl EXCEPT !.pc = "request"]
    /\ UNCHANGED <<lim, libVars, extVars, hostVars, workVars, histVars, mgrVars, fs>>

\* let _ = fs::remove_file(&metadata_path);
DlRemoveMeta ==
    /\ dl.pc = "remove_meta"
    /\ dl' = [dl EXCEPT !.pc = "request"]
    /\ fs' = [fs EXCEPT ![metadata_path(dl.name)] = Absent]
    /\ UNCHANGED <<lim, libVars, extVars, hostVars, workVars, histVars, mgrVars>>

\* A variant of expected_hash_of that drops the header.
expected_hash_ignored(header) == None

\* response.header("x-linked-etag").or_else(|| response.header("x-xet-hash"))
\*     .map(|value| value.trim_matches('"').to_lowercase())
expected_hash_of(header) ==
    IF header = None THEN None ELSE [digest |-> header.digest]

\* ureq::get(&url).call(), the hash header, content-length,
\* File::create(&temp_path), the first Downloading event.  header is the
\* value of the hash header of the response, or None; content_length is
\* the parsed content-length header, or None.
DlRequest(reachable, header, content_length) ==
    /\ dl.pc = "request"
    /\ IF reachable
       THEN /\ dl' = [dl EXCEPT !.pc = "loop", !.http_requests = @ + 1,
                                !.header = header,
                                !.expected_hash = expected_hash_of(header),
                                !.total_size = content_length,
                                !.events = Append(@, DownloadProgress(
                                               "Downloading", 0, content_length))]
            /\ fs' = [fs EXCEPT ![temp_path(dl.name)] = File(<<>>)]
       ELSE /\ dl' = [Return("err") EXCEPT !.http_requests = @ + 1]
            /\ UNCHANGED fs
    /\ UNCHANGED <<lim, libVars, extVars, hostVars, workVars, histVars, mgrVars>>

\* One round of the transfer loop: reader.read, file.write_all,
\* hasher.update, the Downloading event; or the read at the end of the
\* body, which returns 0, or fails when the response announced more bytes
\* than the body has (ureq's length-limited reader).
DlChunk ==
    /\ dl.pc = "loop"
    /\ IF dl.downloaded_bytes < Len(RemoteBytes)
       THEN LET chunk == RemoteBytes[dl.downloaded_bytes + 1] IN
            /\ fs' = [fs EXCEPT ![temp_path(dl.name)] = File(Append(@.bytes, chunk))]
            /\ dl' = [dl EXCEPT !.downloaded_bytes = @ + 1,
                                !.hasher = Append(@, chunk),
                                !.events = Append(@, DownloadProgress(
                                    "Downloading", dl.downloaded_bytes + 1,
                                    dl.total_size))]
       ELSE IF dl.total_size # None /\ dl.total_size.some > Len(RemoteBytes)
       THEN /\ dl' = Return("err")
            /\ UNCHANGED fs
       ELSE /\ dl' = [dl EXCEPT !.pc = "check"]
            /\ UNCHANGED fs
    /\ UNCHANGED <<lim, libVars, extVars, hostVars, workVars, histVars, mgrVars>>

\* reader.read fails: the call returns the error.
DlReadError ==
    /\ dl.pc = "loop"
    /\ dl.downloaded_bytes < Len(RemoteBytes)
    /\ dl' = Return("err")
    /\ UNCHANGED <<lim, libVars, extVars, hostVars, workVars, histVars, mgrVars, fs>>

\* The hash gate.
DlCheck ==
    /\ dl.pc = "check"
    /\ IF dl.expected_hash # None /\ dl.expected_hash # sha256(dl.hasher)
       THEN /\ fs' = [fs EXCEPT ![temp_path(dl.name)] = Absent]
            /\ dl' = Return("err")
       ELSE /\ dl' = [dl EXCEPT !.pc = "rename"]
            /\ UNCHANGED fs
    /\ UNCHANGED <<lim, libVars, extVars, hostVars, workVars, histVars, mgrVars>>

\* fs::rename(&temp_path, &output_path)
DlRename ==
    /\ dl.pc = "rename"
    /\ fs' = IF temp_path(dl.name) = output_path(dl.name) THEN fs
             ELSE [fs EXCEPT ![output_path(dl.name)] = fs[temp_path(dl.name)],
                             ![temp_path(dl.name)] = Absent]
    /\ dl' = [dl EXCEPT !.pc = "meta"]
    /\ UNCHANGED <<lim, libVars, extVars, hostVars, workVars, histVars, mgrVars>>

\* fs::rename fails (the final path is a directory, or may not be written):
\* .map_err(..)? returns the error.
DlRenameError ==
    /\ dl.pc = "rename"
    /\ dl' = Return("err")
    /\ UNCHANGED <<lim, libVars, extVars, hostVars, workVars, histVars, mgrVars, fs>>

\* A variant of final_total that keeps an unknown total unknown.
final_total_as_reported(total_size, downloaded_bytes) == total_size

\* let final_total = total_size.or(Some(downloaded_bytes));
final_total(total_size, downloaded_bytes) ==
    IF total_size # None THEN total_size ELSE [some |-> downloaded_bytes]

\* self.write_metadata(&metadata_path, &hash_hex, expected_hash), the
\* Finished event, Ok(output_path)
DlWriteMeta ==
    /\ dl.pc = "meta"
    /\ fs' = [fs EXCEPT ![metadata_path(dl.name)] =
                 write_metadata(sha256(dl.hasher), dl.expected_hash)]
    /\ dl' = [Return("ok") EXCEPT
                 !.events = Append(@, DownloadProgress("Finished",
                     dl.downloaded_bytes,
                     final_total(dl.total_size, dl.downloaded_bytes)))]
    /\ UNCHANGED <<lim, libVars, extVars, hostVars, workVars, histVars, mgrVars>>

\* The process is killed inside download_with_progress.  A kill inside
\* fs::write may leave a truncated sidecar.
DlCrash ==
    /\ dl.pc \notin {"idle", "done", "crashed"}
    /\ dl' = [dl EXCEPT !.pc = "crashed"]
    /\ \/ UNCHANGED fs
       \/ /\ dl.pc = "meta"
          /\ fs' = [fs EXCEPT ![metadata_path(dl.name)] = Garbage]
    /\ UNCHANGED <<lim, libVars, extVars, hostVars, workVars, histVars, mgrVars>>

\* The call has returned, or the program is started again.
DlReset ==
    /\ dl.pc \in {"done", "crashed"}
    /\ dl' = IdleDownload
    /\ UNCHANGED <<lim, libVars, extVars, hostVars, workVars, histVars, mgrVars, fs>>

\* Hashes the registry may declare in x-linked-etag / x-xet-hash.
DeclaredHashes == {None, sha256(RemoteBytes), sha256(OldBytes)}

\* Header values: a digest, quoted or not, in upper or lower case.
HeaderValues ==
    {None} \cup
    {[digest |-> h.digest, quoted |-> q, upper |-> u] :
        h \in DeclaredHashes \ {None}, q \in BOOLEAN, u \in BOOLEAN}

\* content-length of the response: missing or unparsable, the length of
\* the body, or more than the body has.
ContentLengths ==
    {None, [some |-> Len(RemoteBytes)], [some |-> Len(RemoteBytes) + 1]}

NextStore ==
    \/ \E f \in Names \cup Aliases, r \in Resolutions : DlStart(f, r)
    \/ DlVerify
    \/ DlRemoveMeta
    \/ \E reachable \in BOOLEAN, header \in HeaderValues,
          content_length \in ContentLengths :
              DlRequest(reachable, header, content_length)
    \/ DlChunk
    \/ DlReadError
    \/ DlCheck
    \/ DlRename
    \/ DlRenameError
    \/ DlWriteMeta
    \/ DlCrash
    \/ DlReset

(***************************************************************************)
(* LlmManager: configuration, engine slot, readiness.                      *)
(***************************************************************************)
ALL_GPU_LAYERS == 999

ProviderKinds == {"Local", "OpenAI", "Gemini"}

\* A model reference as the configuration holds it: the file part is a
\* file name, or empty when the reference names only a repository.
Reference(file) == [file |-> file]

GpuReference == Reference(<<"file", "gguf">>)
CpuReference == Reference(<<"model", "tmp">>)
RepoOnlyReference == Reference(<<>>)

\* HuggingFaceModel::parse: the file of the reference, or None for
\* "Missing filename".
parse(reference) ==
    IF reference.file = <<>> THEN None ELSE [some |-> reference.file]

\* local_model_path: the empty string, or a path outside the models directory.
CustomPath == <<"custom", "gguf">>

Configs ==
    [provider : ProviderKinds,
     endpoint_empty : BOOLEAN,
     override_model_path : BOOLEAN,
     local_model_path : {<<>>, CustomPath},
     force_cpu_only : BOOLEAN,
     default_gpu_model : {GpuReference},
     default_cpu_model : {CpuReference, RepoOnlyReference}]

\* Path::exists for a model path.
path_exists(disk, custom, path) ==
    IF path = CustomPath THEN custom
    ELSE path \in DOMAIN disk /\ exists(disk, path)

is_model_downloaded(disk, reference) ==
    IF parse(reference) # None THEN is_downloaded(disk, parse(reference).some)
    ELSE FALSE

get_model_path(disk, reference) ==
    IF parse(reference) # None THEN get_path(disk, parse(reference).some)
    ELSE None

\* ModelDownloader::download as its caller sees it: the result, the models
\* directory it leaves, and what it cost.  reachable: the registry answers
\* and the transfer completes with an accepted hash.
download(disk, name, reachable) ==
    LET out == output_path(name)
        meta == metadata_path(name)
        hashed == hash_computations(disk, out, meta)
    IN  IF verify_existing_file_internal(disk, out, meta)
        THEN [ok |-> TRUE, disk |-> disk, hashes |-> hashed, requests |-> 0]
        ELSE LET cleared == IF exists(disk, out)
                            THEN [disk EXCEPT ![out] = Absent, ![meta] = Absent]
                            ELSE disk
             IN  IF reachable
                 THEN [ok |-> TRUE,
                       disk |-> [cleared EXCEPT
                                   ![temp_path(name)] = Absent,
                                   ![out] = File(RemoteBytes),
                                   ![meta] = write_metadata(sha256(RemoteBytes), None)],
                       hashes |-> hashed, requests |-> 1]
                 ELSE [ok |-> FALSE, disk |-> cleared, hashes |-> hashed,
                       requests |-> 1]

\* LlmManager::download_model
download_model(disk, reference, reachable) ==
    IF parse(reference) = None
    THEN [ok |-> FALSE, disk |-> disk, hashes |-> 0, requests |-> 0]
    ELSE download(disk, parse(reference).some, reachable)

\* A variant of uses_override that looks at the flag only.
uses_override_flag_only(config) == config.override_model_path

uses_override(config) ==
    config.override_model_path /\ config.local_model_path # <<>>

\* A variant of default_reference that ignores force_cpu_only.
default_reference_gpu_only(config) == config.default_gpu_model

default_reference(config) ==
    IF config.force_cpu_only THEN config.default_cpu_model
    ELSE config.default_gpu_model

n_gpu_layers(config) == IF config.force_cpu_only THEN 0 ELSE ALL_GPU_LAYERS

\* "Determine which model to use" in ensure_model_loaded: the model path,
\* or None when the download fails, with the directory left and the cost.
model_path(config, disk, reachable) ==
    IF uses_override(config)
    THEN [path |-> [some |-> config.local_model_path], disk |-> disk,
          hashes |-> 0, downloads |-> 0]
    ELSE LET reference == default_reference(config) IN
         IF ~is_model_downloaded(disk, reference)
         THEN LET d == download_model(disk, reference, reachable)
                  first == IF parse(reference) = None THEN 0
                           ELSE hash_computations(disk,
                                    output_path(parse(reference).some),
                                    metadata_path(parse(reference).some))
              IN  [path |-> IF d.ok THEN [some |-> output_path(parse(reference).some)]
                            ELSE None,
                   disk |-> d.disk, hashes |-> first + d.hashes,
                   downloads |-> 1]
         ELSE [path |-> get_model_path(disk, reference), disk |-> disk,
               hashes |-> 2, downloads |-> 0]

\* llamacpp.load_model(&model_path, n_gpu_layers): the LoadedModel, or None
\* for an error.  loadable: the file is a model the backend accepts.
load_result(config, custom, resolved, loadable) ==
    IF resolved.path = None THEN None
    ELSE IF ~path_exists(resolved.disk, custom, resolved.path.some) \/ ~loadable
    THEN None
    ELSE [source_path |-> resolved.path.some, n_gpu_layers |-> n_gpu_layers(config)]

\* A variant of store_loaded that fills the slot after a failed load.
store_loaded_always(slot, loaded) ==
    IF loaded = None THEN [source_path |-> <<>>, n_gpu_layers |-> 0] ELSE loaded

\* let loaded = llamacpp.load_model(..)?; *self.loaded_model.lock() = Some(loaded)
store_loaded(slot, loaded) == IF loaded = None THEN slot ELSE loaded

\* ensure_model_loaded: result, the slot and the models directory it
\* leaves, and what it did.
ensure_model_loaded(m, disk, custom, reachable, loadable) ==
    IF ~m.llamacpp
    THEN [result |-> "llama.cpp not available", loaded_model |-> m.loaded_model,
          disk |-> disk, path |-> None, hashes |-> 0, downloads |-> 0, loads |-> 0]
    ELSE IF m.loaded_model # None
    THEN [result |-> "ok", loaded_model |-> m.loaded_model,
          disk |-> disk, path |-> None, hashes |-> 0, downloads |-> 0, loads |-> 0]
    ELSE LET resolved == model_path(m.config, disk, reachable)
             loaded == load_result(m.config, custom, resolved, loadable)
         IN  [result |-> IF resolved.path = None THEN "download failed"
                         ELSE IF loaded = None THEN "load failed" ELSE "ok",
              loaded_model |-> store_loaded(m.loaded_model, loaded),
              disk |-> resolved.disk, path |-> resolved.path,
              hashes |-> resolved.hashes, downloads |-> resolved.downloads,
              loads |-> IF resolved.path = None THEN 0 ELSE 1]

\* check_readiness
check_readiness(m, disk, custom) ==
    IF m.config.provider = "Local"
    THEN IF ~m.llamacpp THEN [kind |-> "MissingLlamaCli", model_ref |-> None]
         ELSE IF uses_override(m.config)
         THEN IF path_exists(disk, custom, m.config.local_model_path)
              THEN [kind |-> "Ready", model_ref |-> None]
              ELSE [kind |-> "NeedsDownload",
                    model_ref |-> [custom_path |-> m.config.local_model_path]]
         ELSE IF is_model_downloaded(disk, default_reference(m.config))
         THEN [kind |-> "Ready", model_ref |-> None]
         ELSE [kind |-> "NeedsDownload",
               model_ref |-> [reference |-> default_reference(m.config)]]
    ELSE IF m.config.endpoint_empty
    THEN [kind |-> "NeedsEndpoint", model_ref |-> None]
    ELSE [kind |-> "Ready", model_ref |-> None]

NoCall ==
    [n |-> 0, op |-> "none", result |-> "none", path |-> None,
     hashes |-> 0, downloads |-> 0, loads |-> 0]

\* A variant of update_config that empties the engine slot.
update_config_evicting(m, config) ==
    [m EXCEPT !.config = config, !.loaded_model = None]

\* LlmManager::update_config
update_config(m, config) == [m EXCEPT !.config = config]

\* refresh_llm_manager_config with the lock held: manager.update_config.
MgrUpdateConfig(config) ==
    /\ mcall.n < MaxCalls
    /\ config # mgr.config
    /\ mgr' = update_config(mgr, config)
    /\ mcall' = [NoCall EXCEPT !.n = mcall.n + 1, !.op = "update_config",
                               !.result = "ok"]
    /\ UNCHANGED <<lim, libVars, extVars, hostVars, workVars, histVars, storeVars, custom_file>>

\* LlmManager::complete in a worker that holds the lock: ensure_model_loaded,
\* then model.complete on the slot.
MgrComplete(reachable, loadable, inference_ok) ==
    /\ mcall.n < MaxCalls
    /\ dl.pc = "idle"
    /\ LET e == ensure_model_loaded(mgr, fs, custom_file, reachable, loadable) IN
       /\ mgr' = [mgr EXCEPT !.loaded_model = e.loaded_model]
       /\ fs' = e.disk
       /\ mcall' = [n |-> mcall.n + 1, op |-> "complete",
                    result |-> IF e.result # "ok" THEN e.result
                               ELSE IF e.loaded_model = None THEN "Model not loaded"
                               ELSE IF inference_ok THEN "ok" ELSE "inference failed",
                    path |-> e.path, hashes |-> e.hashes,
                    downloads |-> e.downloads, loads |-> e.loads]
    /\ UNCHANGED <<lim, libVars, extVars, hostVars, workVars, histVars, dl, custom_file>>

\* LlmManager::unload_model
MgrUnload ==
    /\ mcall.n < MaxCalls
    /\ mgr.loaded_model # None
    /\ mgr' = [mgr EXCEPT !.loaded_model = None]
    /\ mcall' = [NoCall EXCEPT !.n = mcall.n + 1, !.op = "unload_model",
                               !.result = "ok"]
    /\ UNCHANGED <<lim, libVars, extVars, hostVars, workVars, histVars, storeVars, custom_file>>

\* download_llm_model: a download through downloader_handle, seen as a whole.
MgrHandleDownload(name, reachable) ==
    /\ dl.pc = "idle"
    /\ fs' = download(fs, name, reachable).disk
    /\ fs' # fs
    /\ UNCHANGED <<lim, libVars, extVars, hostVars, workVars, histVars, dl, mgrVars>>

\* The user creates or removes the file at the override path.
CustomFileChange ==
    /\ custom_file' = ~custom_file
    /\ UNCHANGED <<lim, libVars, extVars, hostVars, workVars, histVars, storeVars, mgr, mcall>>

NextManager ==
    \/ \E config \in Configs : MgrUpdateConfig(config)
    \/ \E reachable \in BOOLEAN, loadable \in BOOLEAN, inference_ok \in BOOLEAN :
          MgrComplete(reachable, loadable, inference_ok)
    \/ MgrUnload
    \/ \E n \in Names, reachable \in BOOLEAN : MgrHandleDownload(n, reachable)
    \/ CustomFileChange

(***************************************************************************)
(* The generation counter at its full width.                               *)
(***************************************************************************)
\* completion_generation: Cell::new(0).  returned holds the values that
\* bump_completion_generation has returned, stamp the generation the last
\* handler passed on, by the handler.
NewCounter == [value |-> U64_ZERO, returned |-> {}, stamp |-> None, by |-> "none"]

\* The handlers that call bump_completion_generation and pass the value on
\* to schedule_auto_completion or request_llm_completion_with_generation.
BumpingHandlers ==
    {"handle_text_change", "request_llm_completion",
     "accept_current_completion", "preload_llm_model"}

\* let generation = self.bump_completion_generation(); followed by the
\* call that takes generation.
Bump(handler) ==
    /\ Cardinality(counter.returned) < MaxBumps
    /\ LET next == wrapping_add_one(counter.value) IN
       counter' = [value |-> next, returned |-> counter.returned \cup {next},
                   stamp |-> [some |-> next], by |-> handler]
    /\ UNCHANGED <<lim, extVars, hostVars, workVars, histVars, storeVars, mgrVars,
                   hf, resolver, document>>

NextCounter == \E handler \in BumpingHandlers : Bump(handler)

\* Values the counter may hold when a behaviour of SpecCounter starts: every
\* limb at one of its ends.
CounterValues == [Limbs -> {0, 1, LimbBase - 2, LimbBase - 1}]

(***************************************************************************)
(* HuggingFaceModel: parsing of a reference string.                        *)
(***************************************************************************)
\* A string is a sequence of characters.
Chars == {"a", "b", "/", "@", ":", " "}

\* s.trim().is_empty()
trim_is_empty(s) == \A i \in DOMAIN s : s[i] = " "

\* s.trim(), for the blank that the strings here may contain.
RECURSIVE trim(_)
trim(s) ==
    IF s = <<>> THEN s
    ELSE IF Head(s) = " " THEN trim(Tail(s))
    ELSE IF s[Len(s)] = " " THEN trim(SubSeq(s, 1, Len(s) - 1))
    ELSE s

\* s.split_once(ch): the parts before and after the first ch, or None.
split_once(s, ch) ==
    IF ~Contains(s, ch) THEN None
    ELSE LET k == CHOOSE i \in DOMAIN s :
                      s[i] = ch /\ \A j \in 1..(i - 1) : s[j] # ch
         IN  [left |-> SubSeq(s, 1, k - 1), right |-> SubSeq(s, k + 1, Len(s))]

\* s.split(ch).collect(): the pieces between the occurrences of ch, empty
\* pieces included.
RECURSIVE split(_, _)
split(s, ch) ==
    LET first == split_once(s, ch) IN
    IF first = None THEN <<s>>
    ELSE <<first.left>> \o split(first.right, ch)

\* s.trim_matches(ch)
RECURSIVE trim_matches(_, _)
trim_matches(s, ch) ==
    IF s = <<>> THEN s
    ELSE IF Head(s) = ch THEN trim_matches(Tail(s), ch)
    ELSE IF s[Len(s)] = ch THEN trim_matches(SubSeq(s, 1, Len(s) - 1), ch)
    ELSE s

\* parts.join(ch)
RECURSIVE join(_, _)
join(parts, ch) ==
    IF parts = <<>> THEN <<>>
    ELSE IF Len(parts) = 1 THEN parts[1]
    ELSE parts[1] \o <<ch>> \o join(Tail(parts), ch)

\* "main".to_string()
MAIN == <<"m", "a", "i", "n">>

Err(message) == [ok |-> FALSE, err |-> message]

\* A variant of repo_of that keeps every segment before the marker.
repo_of_all_segments(repo_parts) == join(repo_parts, "/")

\* format!("{}/{}", repo_parts[0], repo_parts[1])
repo_of(repo_parts) == repo_parts[1] \o <<"/">> \o repo_parts[2]

\* A variant of file_candidate_of that takes the ':file' part as it is.
file_candidate_untrimmed(right_opt, repo_parts) ==
    IF right_opt # None THEN [some |-> right_opt.some]
    ELSE IF Len(repo_parts) > 2
    THEN [some |-> join(SubSeq(repo_parts, 3, Len(repo_parts)), "/")]
    ELSE None

\* The file path: the explicit ':file' part with '/' trimmed when that is
\* not empty, or else the path segments after owner/repo.
file_candidate_of(right_opt, repo_parts) ==
    LET explicit == IF right_opt = None THEN <<>>
                    ELSE trim_matches(right_opt.some, "/")
    IN  IF explicit # <<>> THEN [some |-> explicit]
        ELSE IF Len(repo_parts) > 2
        THEN [some |-> join(SubSeq(repo_parts, 3, Len(repo_parts)), "/")]
        ELSE None

\* HuggingFaceModel::parse(reference), on the string.
HuggingFaceModel_parse(reference) ==
    IF trim_is_empty(reference) THEN Err("Empty Hugging Face reference")
    ELSE
    LET colon == split_once(reference, ":")
        left == IF colon = None THEN reference ELSE colon.left
        right_opt == IF colon = None THEN None ELSE [some |-> colon.right]
        at == split_once(left, "@")
        repo_with_owner == IF at = None THEN left ELSE at.left
        revision == IF at = None THEN MAIN ELSE at.right
        repo_parts == split(repo_with_owner, "/")
    IN  IF Len(repo_parts) < 2 THEN Err("Invalid HF repo format")
        ELSE LET file_candidate == file_candidate_of(right_opt, repo_parts) IN
             IF file_candidate = None THEN Err("Missing filename")
             ELSE [ok |-> TRUE, repo |-> repo_of(repo_parts),
                   revision |-> revision, file |-> file_candidate.some]

\* HuggingFaceModel::download_url; the fixed pieces are one element each.
download_url(model) ==
    <<"https://huggingface.co/">> \o model.repo \o <<"/resolve/">>
        \o model.revision \o <<"/">> \o model.file \o <<"?download=1">>

\* HuggingFaceModel::filename
filename(model) ==
    LET parts == split(model.file, "/") IN parts[Len(parts)]

\* op is the caller of parse; started tells whether the caller went on to
\* the downloader (filesystem, network); toast is what the UI showed.
NoReference ==
    [reference |-> <<>>, op |-> "none", result |-> None, started |-> FALSE,
     toast |-> "none"]

\* LlmManager::download_model(model_ref): parse(model_ref)?, then
\* self.downloader.download(&model).
DownloadModel ==
    /\ hf.op = "none"
    /\ LET result == HuggingFaceModel_parse(hf.reference) IN
       hf' = [hf EXCEPT !.op = "download_model", !.result = result,
                        !.started = result.ok]
    /\ UNCHANGED <<lim, extVars, hostVars, workVars, histVars, storeVars, mgrVars,
                   resolver, document, counter>>

\* AppState::download_llm_model(model_ref) up to the spawn of the download
\* thread.
DownloadLlmModel ==
    /\ hf.op = "none"
    /\ LET trimmed == trim(hf.reference)
           result == HuggingFaceModel_parse(trimmed)
       IN  IF trimmed = <<>>
           THEN hf' = [hf EXCEPT !.op = "download_llm_model",
                                 !.toast = "Specify a model reference before downloading."]
           ELSE IF ~result.ok
           THEN hf' = [hf EXCEPT !.op = "download_llm_model", !.result = result,
                                 !.toast = "Invalid model reference"]
           ELSE hf' = [hf EXCEPT !.op = "download_llm_model", !.result = result,
                                 !.started = TRUE]
    /\ UNCHANGED <<lim, extVars, hostVars, workVars, histVars, storeVars, mgrVars,
                   resolver, document, counter>>

NextParse ==
    \/ DownloadModel
    \/ DownloadLlmModel

\* Strings of at most n characters.
RECURSIVE StringsUpTo(_)
StringsUpTo(n) ==
    IF n = 0 THEN {<<>>}
    ELSE LET shorter == StringsUpTo(n - 1) IN
         shorter \cup {Append(t, c) : t \in {u \in shorter : Len(u) = n - 1},
                                      c \in Chars}

\* Owner and repository names, revisions and file paths of the three
\* surface forms.
RepoNames == {<<"a">>, <<"b", "a">>}
Revisions == {<<"b">>, <<"a", "/", "b">>}
FilePaths == {<<"a">>, <<"b", "/", "a">>}

OwnerRepoFile(owner, name, file) == owner \o <<"/">> \o name \o <<":">> \o file
OwnerRepoRevisionFile(owner, name, revision, file) ==
    owner \o <<"/">> \o name \o <<"@">> \o revision \o <<":">> \o file
OwnerRepoPath(owner, name, file) == owner \o <<"/">> \o name \o <<"/">> \o file

SurfaceForms ==
    {OwnerRepoFile(o, n, f) : o \in RepoNames, n \in RepoNames, f \in FilePaths}
    \cup {OwnerRepoRevisionFile(o, n, v, f) :
              o \in RepoNames, n \in RepoNames, v \in Revisions, f \in FilePaths}
    \cup {OwnerRepoPath(o, n, f) : o \in RepoNames, n \in RepoNames, f \in FilePaths}

\* Reference strings handed to parse.
References == StringsUpTo(MaxRefLen) \cup SurfaceForms

(***************************************************************************)
(* resolve_hf_alias: choice of a file of the repository for an alias.      *)
(***************************************************************************)
\* A file name is a sequence of letters and extensions; an extension is one
\* element, and no letter of an alias occurs in an extension.
Letters == {"a", "A", "b"}
Extensions == {".gguf", ".GGUF", ".bin"}

\* char::to_lowercase, one element at a time.
lower(c) ==
    CASE c = "A" -> "a"
      [] c = ".GGUF" -> ".gguf"
      [] OTHER -> c

\* str::to_lowercase
to_lowercase(name) == [i \in DOMAIN name |-> lower(name[i])]

\* str::contains(&pattern)
str_contains(name, pattern) ==
    \E k \in 0..(Len(name) - Len(pattern)) :
        SubSeq(name, k + 1, k + Len(pattern)) = pattern

\* str::ends_with(&suffix)
ends_with(name, suffix) ==
    /\ Len(suffix) <= Len(name)
    /\ SubSeq(name, Len(name) - Len(suffix) + 1, Len(name)) = suffix

\* str::len: the bytes of the name.
RECURSIVE byte_len(_)
byte_len(name) ==
    IF name = <<>> THEN 0
    ELSE byte_len(Tail(name))
         + (CASE Head(name) \in {".gguf", ".GGUF"} -> 5
              [] Head(name) = ".bin" -> 4
              [] OTHER -> 1)

\* The two filters over info.siblings, in the order of the listing.
candidates_of(listing, alias_lower) ==
    SelectSeq(listing,
              LAMBDA name : /\ str_contains(to_lowercase(name), alias_lower)
                            /\ ends_with(to_lowercase(name), <<".gguf">>))

\* A variant of exact_of that prefers nothing.
exact_never(candidates, alias_lower) == None

\* candidates.iter().find(|name| name.to_lowercase().ends_with(&suffix))
exact_of(candidates, alias_lower) ==
    LET suffix == alias_lower \o <<".gguf">>
        hits == {i \in DOMAIN candidates :
                     ends_with(to_lowercase(candidates[i]), suffix)}
    IN  IF hits = {} THEN None
        ELSE [some |-> candidates[CHOOSE i \in hits : \A j \in hits : i <= j]]

\* Vec::sort_by_key(|name| name.len()): stable, each name goes behind the
\* names that are not longer.
RECURSIVE sort_by_key_len(_)
sort_by_key_len(names) ==
    IF names = <<>> THEN <<>>
    ELSE LET sorted == sort_by_key_len(SubSeq(names, 1, Len(names) - 1))
             last == names[Len(names)]
             keep == Cardinality({i \in DOMAIN sorted :
                                      byte_len(sorted[i]) <= byte_len(last)})
         IN  SubSeq(sorted, 1, keep) \o <<last>>
                 \o SubSeq(sorted, keep + 1, Len(sorted))

\* resolve_hf_alias, once the listing of the repository has arrived.
resolve_hf_alias(listing, alias) ==
    LET alias_lower == to_lowercase(alias)
        candidates == candidates_of(listing, alias_lower)
        exact == exact_of(candidates, alias_lower)
    IN  IF candidates = <<>> THEN Err("Could not find a GGUF file")
        ELSE IF exact # None THEN [ok |-> TRUE, name |-> exact.some]
        ELSE [ok |-> TRUE, name |-> sort_by_key_len(candidates)[1]]

NoResolution == [listing |-> <<>>, alias |-> <<>>, resolved |-> FALSE, result |-> None]

\* One call of resolve_hf_alias; the request for the listing may fail.
ResolveHfAlias(reachable) ==
    /\ ~resolver.resolved
    /\ resolver' = [resolver EXCEPT
                      !.resolved = TRUE,
                      !.result = IF reachable
                                 THEN resolve_hf_alias(resolver.listing, resolver.alias)
                                 ELSE Err("Failed to resolve alias")]
    /\ UNCHANGED <<lim, extVars, hostVars, workVars, histVars, storeVars, mgrVars,
                   hf, document, counter>>

NextResolver == \E reachable \in BOOLEAN : ResolveHfAlias(reachable)

\* The names a repository may list, and the listings and aliases explored.
Stems == UNION {[1..n -> Letters] : n \in 0..MaxStem}
FileNames == {stem \o <<ext>> : stem \in Stems, ext \in Extensions}
Listings == UNION {[1..n -> FileNames] : n \in 0..MaxListing}
AliasInputs == UNION {[1..n -> Letters] : n \in 0..MaxAlias}

(***************************************************************************)
(* Document: the buffer and its ghost text.                                *)
(***************************************************************************)
\* The buffer is a sequence of characters, each with or without the
\* "llm-ghost" tag; the cursor and the two marks of ghost_range are offsets
\* into it.  last, prev, ghost_op, before, before_range and arg record the
\* calls made: the last two calls, the last call on the ghost text, and the
\* text, the ghost_range and the argument at the last insert_ghost_text.
NewDocument ==
    [text |-> <<>>, cursor |-> 0, ghost_range |-> None,
     last |-> "none", prev |-> "none", ghost_op |-> "none",
     before |-> <<>>, before_range |-> None, arg |-> <<>>]

Plain(ch) == [ch |-> ch, ghost |-> FALSE]
Tagged(ch) == [ch |-> ch, ghost |-> TRUE]

\* Document::current_text
current_text(d) == [i \in DOMAIN d.text |-> d.text[i].ch]

\* Document::ghost_is_active
ghost_is_active(d) == d.ghost_range # None

\* A variant of buffer_delete that deletes nothing.
buffer_delete_nothing(text, start, end) == text

\* buffer.delete(&mut start, &mut end)
buffer_delete(text, start, end) ==
    SubSeq(text, 1, start) \o SubSeq(text, end + 1, Len(text))

\* Where an offset is after the characters from start to end are deleted.
after_delete(offset, start, end) ==
    IF offset <= start THEN offset
    ELSE IF offset >= end THEN offset - (end - start)
    ELSE start

\* Where a mark of left gravity is after an insertion of n characters at
\* offset at: text inserted at the mark goes to its right.
left_gravity(mark, at, n) == IF at < mark THEN mark + n ELSE mark

\* Document::dismiss_ghost_text.  The marks taken from ghost_range are
\* deleted by nobody else, so is_deleted() is false.
dismiss_ghost_text(d) ==
    IF d.ghost_range = None THEN d
    ELSE LET start == d.ghost_range.some.start
             end == d.ghost_range.some.end
         IN  [d EXCEPT !.text = buffer_delete(d.text, start, end),
                       !.cursor = after_delete(d.cursor, start, end),
                       !.ghost_range = None]

\* Document::insert_ghost_text(text)
insert_ghost_text(d, text) ==
    LET c == dismiss_ghost_text(d) IN
    IF text = <<>> THEN c
    ELSE [c EXCEPT
            !.text = SubSeq(c.text, 1, c.cursor)
                       \o [i \in DOMAIN text |-> Tagged(text[i])]
                       \o SubSeq(c.text, c.cursor + 1, Len(c.text)),
            !.ghost_range = [some |-> [start |-> c.cursor,
                                       end |-> c.cursor + Len(text)]]]

\* Document::accept_ghost_text
accept_ghost_text(d) ==
    IF d.ghost_range = None THEN d
    ELSE LET start == d.ghost_range.some.start
             end == d.ghost_range.some.end
         IN  [d EXCEPT !.text = [i \in DOMAIN d.text |->
                                    IF start < i /\ i <= end
                                    THEN Plain(d.text[i].ch) ELSE d.text[i]],
                       !.cursor = end,
                       !.ghost_range = None]

Called(d, op) == [d EXCEPT !.prev = document.last, !.last = op]

InsertGhostText(text) ==
    /\ Len(dismiss_ghost_text(document).text) + Len(text) <= MaxText
    /\ document' = [Called(insert_ghost_text(document, text), "insert") EXCEPT
                      !.ghost_op = IF text = <<>> THEN "insert_empty" ELSE "insert",
                      !.before = current_text(document),
                      !.before_range = document.ghost_range,
                      !.arg = text]
    /\ UNCHANGED <<lim, extVars, hostVars, workVars, histVars, storeVars, mgrVars,
                   hf, resolver, counter>>

AcceptGhostText ==
    /\ document' = [Called(accept_ghost_text(document), "accept") EXCEPT
                      !.ghost_op = "accept"]
    /\ UNCHANGED <<lim, extVars, hostVars, workVars, histVars, storeVars, mgrVars,
                   hf, resolver, counter>>

DismissGhostText ==
    /\ document' = [Called(dismiss_ghost_text(document), "dismiss") EXCEPT
                      !.ghost_op = "dismiss"]
    /\ UNCHANGED <<lim, extVars, hostVars, workVars, histVars, storeVars, mgrVars,
                   hf, resolver, counter>>

\* The user types a character: it goes in at the cursor, which moves behind
\* it; the marks of ghost_range have left gravity; between two tagged
\* characters it is inside the tagged stretch.
TypeChar(ch) ==
    /\ Len(document.text) < MaxText
    /\ LET at == document.cursor
           text == document.text
           inside == /\ 0 < at /\ at < Len(text)
                     /\ text[at].ghost /\ text[at + 1].ghost
       IN  document' =
             [Called(document, "type") EXCEPT
                !.text = SubSeq(text, 1, at)
                           \o <<IF inside THEN Tagged(ch) ELSE Plain(ch)>>
                           \o SubSeq(text, at + 1, Len(text)),
                !.cursor = at + 1,
                !.ghost_range =
                    IF document.ghost_range = None THEN None
                    ELSE [some |->
                            [start |-> left_gravity(document.ghost_range.some.start, at, 1),
                             end |-> left_gravity(document.ghost_range.some.end, at, 1)]]]
    /\ UNCHANGED <<lim, extVars, hostVars, workVars, histVars, storeVars, mgrVars,
                   hf, resolver, counter>>

\* buffer.place_cursor by the user.
PlaceCursor(offset) ==
    /\ offset # document.cursor
    /\ document' = [Called(document, "move") EXCEPT !.cursor = offset]
    /\ UNCHANGED <<lim, extVars, hostVars, workVars, histVars, storeVars, mgrVars,
                   hf, resolver, counter>>

\* Document::clear: set_text("") leaves the marks at the start.
Clear ==
    /\ document.text # <<>>
    /\ document' = [Called(document, "clear") EXCEPT
                      !.text = <<>>,
                      !.cursor = 0,
                      !.ghost_range =
                          IF document.ghost_range = None THEN None
                          ELSE [some |-> [start |-> 0, end |-> 0]]]
    /\ UNCHANGED <<lim, extVars, hostVars, workVars, histVars, storeVars, mgrVars,
                   hf, resolver, counter>>

GhostTexts == UNION {[1..n -> {"g"}] : n \in 0..MaxGhost}
UserTexts == UNION {[1..n -> {"x", "y"}] : n \in 0..2}

NextDocument ==
    \/ \E text \in GhostTexts : InsertGhostText(text)
    \/ AcceptGhostText
    \/ DismissGhostText
    \/ TypeChar("x")
    \/ \E offset \in 0..Len(document.text) : PlaceCursor(offset)
    \/ Clear

(***************************************************************************)
(* ensure_model_loaded for a default reference, call by call.              *)
(***************************************************************************)
\* file is the file part of the parsed reference; listings counts the
\* requests for the listing of the repository; checked, fetched are the
\* file names that the cache check and the download or get_path used.
NoEnsure ==
    [pc |-> "idle", file |-> <<>>, listings |-> 0, checked |-> None,
     fetched |-> None, result |-> "none"]

\* A variant of materialize_filename that takes the alias for the name.
materialize_filename_unresolved(file, resolution) ==
    [name |-> [some |-> file], requests |-> 0]

\* HuggingFaceModel::materialize_filename on a clone of the model: the
\* file name, or None for an error, and the listing requests it made.
\* resolution is the answer of resolve_hf_alias.
materialize_filename(file, resolution) ==
    IF ~needs_filename_resolution(file) THEN [name |-> [some |-> file], requests |-> 0]
    ELSE [name |-> resolution, requests |-> 1]

\* ensure_model_loaded with the backend there, the slot empty and no
\* override path, for a reference that parses.
EnsureStart(file) ==
    /\ ensure.pc = "idle"
    /\ ensure' = [NoEnsure EXCEPT !.pc = "is_model_downloaded", !.file = file]
    /\ UNCHANGED <<lim, libVars, hostVars, workVars, histVars, storeVars, mgrVars,
                   xfer, cache, supp>>

\* if !self.is_model_downloaded(model_ref): parse, then
\* ModelDownloader::is_downloaded.
EnsureIsDownloaded(resolution) ==
    /\ ensure.pc = "is_model_downloaded"
    /\ LET m == materialize_filename(ensure.file, resolution)
           downloaded == m.name # None /\ is_downloaded(fs, m.name.some)
       IN  ensure' = [ensure EXCEPT
                        !.pc = IF downloaded THEN "get_model_path" ELSE "download_model",
                        !.listings = @ + m.requests,
                        !.checked = m.name]
    /\ UNCHANGED <<lim, libVars, hostVars, workVars, histVars, storeVars, mgrVars,
                   xfer, cache, supp>>

\* self.download_model(model_ref)?: parse, then download_with_progress.
EnsureDownloadModel(resolution, reachable) ==
    /\ ensure.pc = "download_model"
    /\ LET m == materialize_filename(ensure.file, resolution) IN
       IF m.name = None
       THEN /\ ensure' = [ensure EXCEPT !.pc = "done", !.listings = @ + m.requests,
                                        !.result = "download failed"]
            /\ UNCHANGED fs
       ELSE LET d == download(fs, m.name.some, reachable) IN
            /\ ensure' = [ensure EXCEPT
                            !.pc = IF d.ok THEN "load_model" ELSE "done",
                            !.listings = @ + m.requests,
                            !.fetched = m.name,
                            !.result = IF d.ok THEN "none" ELSE "download failed"]
            /\ fs' = d.disk
    /\ UNCHANGED <<lim, libVars, hostVars, workVars, histVars, dl, mgrVars,
                   xfer, cache, supp>>

\* self.get_model_path(model_ref).ok_or_else(..)?: parse, then
\* ModelDownloader::get_path.
EnsureGetModelPath(resolution) ==
    /\ ensure.pc = "get_model_path"
    /\ LET m == materialize_filename(ensure.file, resolution)
           path == IF m.name = None THEN None ELSE get_path(fs, m.name.some)
       IN  ensure' = [ensure EXCEPT
                        !.pc = IF path = None THEN "done" ELSE "load_model",
                        !.listings = @ + m.requests,
                        !.fetched = m.name,
                        !.result = IF path = None THEN "Model path not found"
                                   ELSE "none"]
    /\ UNCHANGED <<lim, libVars, hostVars, workVars, histVars, storeVars, mgrVars,
                   xfer, cache, supp>>

\* llamacpp.load_model(&model_path, n_gpu_layers)?
EnsureLoadModel(loadable) ==
    /\ ensure.pc = "load_model"
    /\ ensure' = [ensure EXCEPT !.pc = "done",
                                !.result = IF loadable THEN "ok" ELSE "load failed"]
    /\ UNCHANGED <<lim, libVars, hostVars, workVars, histVars, storeVars, mgrVars,
                   xfer, cache, supp>>

\* ensure_model_loaded has returned.
EnsureReturn ==
    /\ ensure.pc = "done"
    /\ ensure' = NoEnsure
    /\ UNCHANGED <<lim, libVars, hostVars, workVars, histVars, storeVars, mgrVars,
                   xfer, cache, supp>>

NextEnsure ==
    \/ \E file \in Names \cup Aliases : EnsureStart(file)
    \/ \E resolution \in Resolutions : EnsureIsDownloaded(resolution)
    \/ \E resolution \in Resolutions, reachable \in BOOLEAN :
          EnsureDownloadModel(resolution, reachable)
    \/ \E resolution \in Resolutions : EnsureGetModelPath(resolution)
    \/ \E loadable \in BOOLEAN : EnsureLoadModel(loadable)
    \/ EnsureReturn

(***************************************************************************)
(* Two threads inside download_with_progress for the same file.  The       *)
(* directory maps the temp path and the final path to inodes; an open      *)
(* File keeps its inode and its own offset, as POSIX files do.             *)
(***************************************************************************)
Threads == {1, 2}

\* Inodes are numbered from 1, and 0 stands for no file at a path; a byte
\* range that was never written reads as zeros, the chunk 0.
NoThread == [pc |-> "verify", fd |-> 0, offset |-> 0, hasher |-> <<>>,
             result |-> "none"]

\* Both calls have started; the models directory is empty.
NoTransfers ==
    [temp |-> 0, out |-> 0, meta |-> Absent,
     inodes |-> [i \in Threads |-> <<>>],
     th |-> [t \in Threads |-> NoThread]]

\* The bytes at a path of the directory.
bytes_at(x, inode) == x.inodes[inode]

\* verify_existing_file for the final path and the sidecar of x.
verify_final(x) ==
    /\ x.out # 0
    /\ x.meta # Absent
    /\ x.meta.sha256 = sha256(bytes_at(x, x.out))

\* The content of a file after write_all of chunk at offset.
write_at(content, offset, chunk) ==
    [i \in 1..(IF offset + 1 > Len(content) THEN offset + 1 ELSE Len(content)) |->
        IF i = offset + 1 THEN chunk
        ELSE IF i <= Len(content) THEN content[i] ELSE 0]

TransferFrame ==
    UNCHANGED <<lim, libVars, hostVars, workVars, histVars, storeVars, mgrVars,
                ensure, cache, supp>>

\* if output_path.exists() { verify .. Ok(true) => return; otherwise
\* remove_file(output_path), remove_file(metadata_path) }
XferVerify(t) ==
    /\ xfer.th[t].pc = "verify"
    /\ xfer' = IF xfer.out = 0
               THEN [xfer EXCEPT !.th[t].pc = "create"]
               ELSE IF verify_final(xfer)
               THEN [xfer EXCEPT !.th[t].pc = "done", !.th[t].result = "ok"]
               ELSE [xfer EXCEPT !.out = 0, !.meta = Absent,
                                 !.th[t].pc = "create"]
    /\ TransferFrame

\* The request, then File::create(&temp_path): a new file, or the file at
\* the temp path truncated.
XferCreate(t) ==
    /\ xfer.th[t].pc = "create"
    /\ LET inode == IF xfer.temp # 0 THEN xfer.temp ELSE t IN
       xfer' = [xfer EXCEPT !.temp = inode,
                            !.inodes[inode] = <<>>,
                            !.th[t].fd = inode,
                            !.th[t].pc = "loop"]
    /\ TransferFrame

\* One round of the loop: file.write_all at the offset of this File,
\* hasher.update.
XferWrite(t) ==
    /\ xfer.th[t].pc = "loop"
    /\ xfer.th[t].offset < Len(RemoteBytes)
    /\ LET chunk == RemoteBytes[xfer.th[t].offset + 1]
           inode == xfer.th[t].fd
       IN  xfer' = [xfer EXCEPT
                      !.inodes[inode] = write_at(@, xfer.th[t].offset, chunk),
                      !.th[t].offset = @ + 1,
                      !.th[t].hasher = Append(@, chunk)]
    /\ TransferFrame

\* The end of the body and the hash gate, which the bytes received pass;
\* fs::rename(&temp_path, &output_path), an error when no file is at the
\* temp path.
XferRename(t) ==
    /\ xfer.th[t].pc = "loop"
    /\ xfer.th[t].offset = Len(RemoteBytes)
    /\ xfer' = IF xfer.temp = 0
               THEN [xfer EXCEPT !.th[t].pc = "done", !.th[t].result = "err"]
               ELSE [xfer EXCEPT !.out = xfer.temp, !.temp = 0,
                                 !.th[t].pc = "meta"]
    /\ TransferFrame

\* self.write_metadata(&metadata_path, &hash_hex, ..), Ok(output_path)
XferWriteMeta(t) ==
    /\ xfer.th[t].pc = "meta"
    /\ xfer' = [xfer EXCEPT !.meta = write_metadata(sha256(xfer.th[t].hasher), None),
                            !.th[t].pc = "done", !.th[t].result = "ok"]
    /\ TransferFrame

NextTransfer ==
    \/ \E t \in Threads : XferVerify(t)
    \/ \E t \in Threads : XferCreate(t)
    \/ \E t \in Threads : XferWrite(t)
    \/ \E t \in Threads : XferRename(t)
    \/ \E t \in Threads : XferWriteMeta(t)

(***************************************************************************)
(* The models directory under several references.  The bytes the registry  *)
(* serves are a function of the download URL, so the URL stands for them.  *)
(***************************************************************************)
CacheRepos == {<<"a", "/", "a">>, <<"a", "/", "b">>}
CacheRevisions == {MAIN, <<"b">>}
CacheFiles == {<<"a", ".gguf">>, <<"b", "/", "a", ".gguf">>, <<"b", ".gguf">>}

\* Parsed references: repository, revision and file path vary, and two of
\* the file paths end in the same file name.
CacheModels == [repo : CacheRepos, revision : CacheRevisions, file : CacheFiles]

CachePaths ==
    UNION {{output_path(filename(m)), metadata_path(filename(m))} : m \in CacheModels}

NoModel == [repo |-> <<>>, revision |-> <<>>, file |-> <<>>]

\* A ModelDownloader over an empty models directory.
NoCache ==
    [disk |-> [p \in CachePaths |-> Absent],
     op |-> "none", model |-> NoModel, result |-> "none"]

\* The bytes served at the download URL of model.
served(model) == download_url(model)

\* download_with_progress for a parsed reference whose file needs no
\* resolution, as its caller sees it.  reachable: the registry answers and
\* the transfer completes with an accepted hash.
download_with_progress(disk, model, reachable) ==
    LET out == output_path(filename(model))
        meta == metadata_path(filename(model))
    IN  IF verify_existing_file_internal(disk, out, meta)
        THEN [ok |-> TRUE, disk |-> disk]
        ELSE LET cleared == IF exists(disk, out)
                            THEN [disk EXCEPT ![out] = Absent, ![meta] = Absent]
                            ELSE disk
             IN  IF reachable
                 THEN [ok |-> TRUE,
                       disk |-> [cleared EXCEPT
                                   ![out] = File(served(model)),
                                   ![meta] = write_metadata(sha256(served(model)), None)]]
                 ELSE [ok |-> FALSE, disk |-> cleared]

CacheFrame ==
    UNCHANGED <<lim, libVars, hostVars, workVars, histVars, storeVars, mgrVars,
                ensure, xfer, supp>>

\* ModelDownloader::download(model)
CacheDownload(model, reachable) ==
    /\ LET d == download_with_progress(cache.disk, model, reachable) IN
       cache' = [disk |-> d.disk, op |-> "download", model |-> model,
                 result |-> IF d.ok THEN "ok" ELSE "err"]
    /\ CacheFrame

\* ModelDownloader::is_downloaded(model)
CacheIsDownloaded(model) ==
    /\ cache' = [cache EXCEPT
                   !.op = "is_downloaded", !.model = model,
                   !.result = IF is_downloaded(cache.disk, filename(model))
                              THEN "present" ELSE "absent"]
    /\ CacheFrame

\* ModelDownloader::get_path(model)
CacheGetPath(model) ==
    /\ cache' = [cache EXCEPT
                   !.op = "get_path", !.model = model,
                   !.result = IF get_path(cache.disk, filename(model)) # None
                              THEN "present" ELSE "absent"]
    /\ CacheFrame

\* A sidecar is lost: the user removes it, or the process was killed
\* between the rename and write_metadata.
CacheSidecarLost(model) ==
    /\ exists(cache.disk, metadata_path(filename(model)))
    /\ cache' = [cache EXCEPT !.disk[metadata_path(filename(model))] = Absent,
                              !.op = "none", !.model = NoModel, !.result = "none"]
    /\ CacheFrame

NextCache ==
    \/ \E model \in CacheModels, reachable \in BOOLEAN : CacheDownload(model, reachable)
    \/ \E model \in CacheModels : CacheIsDownloaded(model)
    \/ \E model \in CacheModels : CacheGetPath(model)
    \/ \E model \in CacheModels : CacheSidecarLost(model)

(***************************************************************************)
(* The buffer signals and with_suppressed_completion.  GTK calls signal    *)
(* handlers synchronously, inside the call that changes the buffer, so a   *)
(* handler of the Host is one step; the glib sources that are pending are  *)
(* kept next to the SourceId stored in completion_debounce.                *)
(***************************************************************************)
NoSuppression ==
    [depth |-> 0,                  \* completion_suppression_depth
     generation |-> 0,             \* completion_generation
     manual |-> FALSE,             \* manual_completion_inflight
     debounce |-> None,            \* completion_debounce
     last |-> None,                \* last_completion_schedule
     ghost |-> FALSE,              \* document.ghost_range.is_some()
     sources |-> {},               \* the timeouts glib holds
     spawned |-> {},               \* history: generations a request was spawned for
     handled |-> 0,                \* history: runs of handle_text_change past its guard
     fired |-> 0,                  \* history: timeouts that fired
     deepest |-> 0,                \* history: the largest depth seen in the last handler
     preloaded |-> FALSE,          \* the preload poller has had its result
     op |-> "none"]                \* history: the last handler

\* A variant of are_completions_suppressed that never suppresses.
are_completions_suppressed_never(st) == FALSE

\* self.completion_suppression_depth.get() > 0
are_completions_suppressed(st) == st.depth > 0

\* let depth = ..get(); self.completion_suppression_depth.set(depth + 1):
\* the state in which the closure of with_suppressed_completion starts.
suppressed(st) ==
    [st EXCEPT !.depth = st.depth + 1,
               !.deepest = IF st.depth + 1 > @ THEN st.depth + 1 ELSE @]

\* with_suppressed_completion(f) called in st, where result is the state in
\* which f, started in suppressed(st), returns: the depth saved at the
\* entry is written back.
with_suppressed_completion(st, result) ==
    LET depth == st.depth IN [result EXCEPT !.depth = depth]

\* A variant of cancel_completion_debounce that forgets the SourceId and
\* leaves the source with glib.
cancel_completion_debounce_forget(st) == [st EXCEPT !.debounce = None]

\* if let Some(source) = self.completion_debounce.borrow_mut().take()
\*     { let _ = source.remove(); }
cancel_completion_debounce(st) ==
    [st EXCEPT !.debounce = None, !.sources = @ \ {st.debounce}]

\* schedule_auto_completion(generation) with the glib source it creates.
schedule_source(st, generation) ==
    IF st.manual THEN st
    ELSE LET sched == schedule_auto_completion(generation, st.manual,
                                               st.debounce, st.last)
             cancelled == cancel_completion_debounce(st)
         IN  [cancelled EXCEPT !.debounce = sched.debounce,
                               !.last = sched.last,
                               !.sources = @ \cup {sched.debounce}]

RECURSIVE handle_text_change(_)

\* The closure of buffer.connect_changed.
connect_changed(st) == handle_text_change(st)

\* Document::dismiss_ghost_text as the buffer sees it: the deletion of the
\* ghost range emits "changed".
signals_of_dismiss(st) ==
    IF st.ghost THEN connect_changed([st EXCEPT !.ghost = FALSE]) ELSE st

\* cancel_current_completion
cancel_current_completion(st) ==
    with_suppressed_completion(st, signals_of_dismiss(suppressed(st)))

\* handle_text_change
handle_text_change(st) ==
    IF are_completions_suppressed(st) THEN st
    ELSE LET cancelled == cancel_completion_debounce(st)
             cleared == [cancelled EXCEPT !.manual = FALSE]
             dismissed == with_suppressed_completion(
                              cleared, signals_of_dismiss(suppressed(cleared)))
             generation == bump_completion_generation(dismissed.generation)
             bumped == [dismissed EXCEPT !.generation = generation,
                                         !.handled = @ + 1]
         IN  schedule_source(bumped, generation)

\* The closure of buffer.connect_mark_set, for the "insert" mark.
connect_mark_set(st) ==
    IF are_completions_suppressed(st) THEN st
    ELSE IF st.ghost THEN cancel_current_completion(st) ELSE st

\* Document::insert_ghost_text of a non-empty text as the buffer sees it:
\* dismiss, insert_with_tags ("changed"), place_cursor ("mark-set"), and
\* only then ghost_range.replace(..).
signals_of_insert(st) ==
    LET dismissed == signals_of_dismiss(st)
        inserted == connect_changed(dismissed)
        placed == connect_mark_set(inserted)
    IN  [placed EXCEPT !.ghost = TRUE]

\* Document::accept_ghost_text as the buffer sees it: take_ghost_marks,
\* remove_tag, place_cursor ("mark-set").
signals_of_accept(st) ==
    IF st.ghost THEN connect_mark_set([st EXCEPT !.ghost = FALSE]) ELSE st

\* accept_current_completion
accept_current_completion(st) ==
    LET accepted == st.ghost
        done == with_suppressed_completion(st, signals_of_accept(suppressed(st)))
    IN  IF ~accepted THEN done
        ELSE LET generation == bump_completion_generation(done.generation)
             IN  schedule_source([done EXCEPT !.generation = generation],
                                 generation)

Handler(name) == [supp EXCEPT !.op = name, !.deepest = 0]

SignalFrame ==
    UNCHANGED <<lim, libVars, hostVars, workVars, histVars, storeVars, mgrVars,
                ensure, xfer, cache>>

\* The user types, pastes or deletes, or a file is loaded into the buffer:
\* the buffer emits "changed".
BufferChanged ==
    /\ supp.generation < MaxSignalGen
    /\ supp' = connect_changed(Handler("changed"))
    /\ SignalFrame

\* The user moves the cursor: the buffer emits "mark-set".
CursorMoved ==
    /\ supp' = connect_mark_set(Handler("mark-set"))
    /\ SignalFrame

\* Ctrl+Space with text in the buffer: request_llm_completion.
CtrlSpace ==
    /\ supp.generation < MaxSignalGen
    /\ LET st == Handler("request")
           generation == bump_completion_generation(st.generation)
       IN  supp' = [st EXCEPT !.generation = generation, !.manual = TRUE,
                              !.spawned = @ \cup {generation}]
    /\ SignalFrame

\* Tab with ghost text shown.
TabPressed ==
    /\ supp.ghost
    /\ supp.generation < MaxSignalGen
    /\ supp' = accept_current_completion(Handler("accept"))
    /\ SignalFrame

\* Escape, or a textual key, with ghost text shown.
EscapePressed ==
    /\ supp.ghost
    /\ supp' = cancel_current_completion(Handler("cancel"))
    /\ SignalFrame

\* The callback of a pending timeout; ControlFlow::Break removes the source.
TimeoutFires(source) ==
    /\ source \in supp.sources
    /\ LET st == Handler("timeout")
           taken == [st EXCEPT !.debounce = None, !.last = None,
                               !.sources = @ \ {source}, !.fired = @ + 1]
       IN  supp' = IF taken.manual \/ ~IsCurrent(source.generation, taken.generation)
                   THEN taken
                   ELSE [taken EXCEPT !.spawned = @ \cup {source.generation}]
    /\ SignalFrame

\* The poller of a request of the current generation receives a non-empty
\* text: it clears the flag of the trigger and inserts the ghost text.
PollerInsertsGhost(trigger) ==
    /\ supp.generation \in supp.spawned
    /\ trigger = "Manual" => supp.manual
    /\ LET st == Handler("insert")
           cleared == IF trigger = "Manual" THEN [st EXCEPT !.manual = FALSE] ELSE st
       IN  supp' = with_suppressed_completion(
                       cleared, signals_of_insert(suppressed(cleared)))
    /\ SignalFrame

\* The preload poller receives Ok(()) with text in the buffer.
PreloadReady ==
    /\ ~supp.preloaded
    /\ supp.generation < MaxSignalGen
    /\ LET st == [Handler("preload") EXCEPT !.preloaded = TRUE]
           generation == bump_completion_generation(st.generation)
       IN  supp' = schedule_source([st EXCEPT !.generation = generation], generation)
    /\ SignalFrame

NextSignals ==
    \/ BufferChanged
    \/ CursorMoved
    \/ CtrlSpace
    \/ TabPressed
    \/ EscapePressed
    \/ \E source \in supp.sources : TimeoutFires(source)
    \/ \E trigger \in {"Manual", "Automatic"} : PollerInsertsGhost(trigger)
    \/ PreloadReady

(***************************************************************************)
(* Specifications of the completion protocol.                              *)
(***************************************************************************)
WorkerOutcomes == {"ok_text", "ok_empty", "err_failed"}

\* An empty models directory.
InitStore ==
    /\ fs = [p \in Paths |-> Absent]
    /\ dl = IdleDownload

\* The models directory as earlier runs, or the user, may have left it.
Sidecars ==
    {Absent, Garbage} \cup
    {write_metadata(sha256(b), None) : b \in {RemoteBytes, OldBytes}}

InitDisk ==
    /\ fs \in [Paths -> {Absent, File(RemoteBytes), File(OldBytes), File(PartialBytes)}
                          \cup Sidecars]
    /\ \A n \in Names :
          /\ fs[output_path(n)] \in {Absent, File(RemoteBytes), File(OldBytes)}
          /\ temp_path(n) # output_path(n) =>
                fs[temp_path(n)] \in {Absent, File(PartialBytes)}
          /\ fs[metadata_path(n)] \in Sidecars
    /\ dl = IdleDownload

InitHost(limits) ==
    /\ lim = limits
    /\ now = 0
    /\ completion_generation = 0
    /\ manual_completion_inflight = FALSE
    /\ auto_completion_running = FALSE
    /\ completion_debounce = None
    /\ last_completion_schedule = None
    /\ doc = [prefix |-> <<>>, suffix |-> <<>>]
    /\ ghost = NoGhost
    /\ status_label = ""
    /\ toasts = {}
    /\ reqs = <<>>
    /\ llm_lock = 0
    /\ llm_poisoned = FALSE
    /\ max_completion_tokens \in TokenChoices
    /\ settings_max_tokens = max_completion_tokens
    /\ host_wait = 0
    /\ preload = [pc |-> "lock", chan |-> "empty", polling |-> TRUE]
    /\ calls = {}
    /\ applied = {}
    /\ streak_start = -1
    /\ last_change = 0

\* LlmManager::new with the default settings and the backend initialized.
DefaultConfig ==
    [provider |-> "Local", endpoint_empty |-> FALSE,
     override_model_path |-> FALSE, local_model_path |-> <<>>,
     force_cpu_only |-> FALSE, default_gpu_model |-> GpuReference,
     default_cpu_model |-> RepoOnlyReference]

InitManager ==
    /\ mgr = [config |-> DefaultConfig, llamacpp |-> TRUE, loaded_model |-> None]
    /\ custom_file = FALSE
    /\ mcall = NoCall

\* Nothing under way in the step-by-step views.
InitExt ==
    /\ ensure = NoEnsure
    /\ xfer = NoTransfers
    /\ cache = NoCache
    /\ supp = NoSuppression

\* No reference parsed, no alias resolved, an empty Document.
InitLib ==
    /\ counter = NewCounter
    /\ hf = NoReference
    /\ resolver = NoResolution
    /\ document = NewDocument
    /\ InitExt

Init ==
    /\ InitLib
    /\ InitHost([gen |-> MaxGen, req |-> MaxReq, time |-> MaxTime, track |-> FALSE])
    /\ InitStore
    /\ InitManager

InitFair ==
    /\ InitLib
    /\ InitHost([gen |-> FairGen, req |-> FairReq, time |-> MaxTime, track |-> FALSE])
    /\ InitStore
    /\ InitManager

InitDebounce ==
    /\ InitLib
    /\ InitHost([gen |-> StreakGen, req |-> MaxReq, time |-> StreakTime,
                 track |-> TRUE])
    /\ InitStore
    /\ InitManager

Next ==
    \/ \E p \in PrefixChoices, s \in SuffixChoices : TextChange(p, s)
    \/ ManualRequest
    \/ DebounceFire
    \/ AcceptGhost
    \/ CancelGhost
    \/ Tick
    \/ \E i \in 1..lim.req : WorkerCheck(i)
    \/ \E i \in 1..lim.req : WorkerLock(i)
    \/ \E i \in 1..lim.req, o \in WorkerOutcomes : WorkerComplete(i, o)
    \/ \E i \in 1..lim.req : WorkerPanic(i)
    \/ \E i \in 1..lim.req : Poller(i)
    \/ PreloadLock
    \/ \E o \in {"ok", "err"} : PreloadComplete(o)
    \/ PreloadPoll
    \/ \E t \in TokenChoices : ConfigChange(t)
    \/ HostResume

Spec == Init /\ [][Next]_vars

\* The Host while the user types and no worker thread makes a step.
NextDebounce ==
    \/ \E p \in PrefixChoices, s \in SuffixChoices : TextChange(p, s)
    \/ DebounceFire
    \/ Tick

SpecDebounce == InitDebounce /\ [][NextDebounce]_vars

\* The model store alone: calls of download_with_progress, one at a time.
InitStoreOnly ==
    /\ InitLib
    /\ InitHost([gen |-> 0, req |-> 0, time |-> 0, track |-> FALSE])
    /\ InitDisk
    /\ InitManager

SpecStore == InitStoreOnly /\ [][NextStore]_vars

\* ensure_model_loaded alone, over any models directory.
SpecEnsure == InitStoreOnly /\ [][NextEnsure]_vars

\* Two downloads of one file at the same time.
SpecTransfer == Init /\ [][NextTransfer]_vars

\* The model store under several references.
SpecCache == Init /\ [][NextCache]_vars

\* The handlers of the Host around the buffer signals.
SpecSignals == Init /\ [][NextSignals]_vars

\* Models directories the manager may find: empty, or with the GPU-class
\* model present without a sidecar.
ManagerDisks ==
    {[p \in Paths |-> Absent],
     [p \in Paths |-> IF p = output_path(GpuReference.file)
                      THEN File(RemoteBytes) ELSE Absent]}

\* The LlmManager alone: its calls are serialized by Mutex<LlmManager>.
InitManagerOnly ==
    /\ InitLib
    /\ InitHost([gen |-> 0, req |-> 0, time |-> 0, track |-> FALSE])
    /\ fs \in ManagerDisks
    /\ dl = IdleDownload
    /\ mgr \in [config : Configs, llamacpp : BOOLEAN, loaded_model : {None}]
    /\ custom_file \in BOOLEAN
    /\ mcall = NoCall

SpecManager == InitManagerOnly /\ [][NextManager]_vars

\* The counter alone, started at any value it may have reached.
InitCounter ==
    /\ InitHost([gen |-> 0, req |-> 0, time |-> 0, track |-> FALSE])
    /\ InitStore
    /\ InitManager
    /\ hf = NoReference
    /\ resolver = NoResolution
    /\ document = NewDocument
    /\ InitExt
    /\ counter \in {[NewCounter EXCEPT !.value = v] : v \in CounterValues}

SpecCounter == InitCounter /\ [][NextCounter]_vars

\* Parsing alone, of any reference string.
InitParse ==
    /\ InitHost([gen |-> 0, req |-> 0, time |-> 0, track |-> FALSE])
    /\ InitStore
    /\ InitManager
    /\ counter = NewCounter
    /\ hf \in {[NoReference EXCEPT !.reference = r] : r \in References}
    /\ resolver = NoResolution
    /\ document = NewDocument
    /\ InitExt

SpecParse == InitParse /\ [][NextParse]_vars

\* Alias resolution alone, for any listing and alias.
InitResolver ==
    /\ InitHost([gen |-> 0, req |-> 0, time |-> 0, track |-> FALSE])
    /\ InitStore
    /\ InitManager
    /\ counter = NewCounter
    /\ hf = NoReference
    /\ resolver \in {[NoResolution EXCEPT !.listing = l, !.alias = a] :
                         l \in Listings, a \in AliasInputs}
    /\ document = NewDocument
    /\ InitExt

SpecResolver == InitResolver /\ [][NextResolver]_vars

\* A Document alone, after set_text and place_cursor.
InitDocument ==
    /\ InitHost([gen |-> 0, req |-> 0, time |-> 0, track |-> FALSE])
    /\ InitStore
    /\ InitManager
    /\ counter = NewCounter
    /\ hf = NoReference
    /\ resolver = NoResolution
    /\ InitExt
    /\ document \in {[NewDocument EXCEPT
                         !.text = [i \in DOMAIN t |-> Plain(t[i])], !.cursor = c] :
                         t \in UserTexts, c \in 0..2}
    /\ document.cursor <= Len(document.text)

SpecDocument == InitDocument /\ [][NextDocument]_vars


\* The threads are scheduled and the calls they make return; the GTK main
\* loop keeps running the idle pollers and lets a blocked Host continue.
Fairness ==
    /\ \A i \in 1..MaxReq : WF_vars(WorkerCheck(i))
    /\ \A i \in 1..MaxReq : WF_vars(WorkerLock(i))
    /\ \A i \in 1..MaxReq : WF_vars(\E o \in WorkerOutcomes : WorkerComplete(i, o))
    /\ \A i \in 1..MaxReq : WF_vars(Poller(i))
    /\ WF_vars(PreloadLock)
    /\ WF_vars(\E o \in {"ok", "err"} : PreloadComplete(o))
    /\ WF_vars(HostResume)

FairSpec == InitFair /\ [][Next]_vars /\ Fairness

\* The protocol with the runs of the idle callback that find the channel
\* empty.
NextPoll ==
    \/ Next
    \/ \E i \in 1..lim.req : PollerEmpty(i)

SpecPoll == InitFair /\ [][NextPoll]_vars /\ Fairness

\* Two requests, with the threads and the pollers scheduled.
InitLatest ==
    /\ InitLib
    /\ InitHost([gen |-> LatestGen, req |-> MaxReq, time |-> MaxTime, track |-> FALSE])
    /\ InitStore
    /\ InitManager

SpecLatest == InitLatest /\ [][Next]_vars /\ Fairness

(***************************************************************************)
(* Properties of the completion protocol.                                  *)
(***************************************************************************)
Generation(i) == reqs[i].generation

\* The step makes the Host act on the result of request i.
ActsOn(i) ==
    \/ \E a \in applied' \ applied : a.req = i
    \/ ghost' # ghost /\ ghost'.active /\ ghost'.req = i

\* The step ends the polling of request i.
Processes(i) == reqs[i].polling /\ ~reqs'[i].polling

\* C1: the Host acts on a result (ghost text, status, toast) only if the
\* result's generation equals completion_generation when the poller receives
\* it, which makes it the newest spawned request; the poller of a stale
\* result changes nothing the user sees.
C1_GenerationDiscard ==
    [][\A i \in DOMAIN reqs :
          /\ ActsOn(i) =>
                /\ Generation(i) = completion_generation
                /\ \A j \in DOMAIN reqs : Generation(j) <= Generation(i)
          /\ (Processes(i) /\ Generation(i) # completion_generation) =>
                UNCHANGED <<ghost, status_label, toasts, applied>>]_vars

\* Requests A and B were spawned in this order, both workers delivered
\* text, both were polled, and the Host shows B's text only.
C1_Witness ==
    \E i, j \in DOMAIN reqs :
        /\ i < j
        /\ reqs[i].chan = "ok_text" /\ ~reqs[i].polling
        /\ reqs[j].chan = "ok_text" /\ ~reqs[j].polling
        /\ ghost.active /\ ghost.req = j
        /\ \A a \in applied : a.req = j

\* C2: no worker enters LlmManager::complete for a request that was
\* superseded before or while it waited for the lock.
C2_StaleWorkerNeverCompletes == \A c \in calls : ~c.superseded

\* C3: a streak of text changes less than DEBOUNCE_MS apart never lasts
\* longer than MAX_WAIT_MS without an automatic request being fired.
C3_DebounceCeiling == streak_start # -1 => now - streak_start <= MAX_WAIT_MS

ManualInFlight ==
    \E i \in DOMAIN reqs : reqs[i].trigger = "Manual" /\ reqs[i].polling

\* C4: while a manual request is in flight no step schedules a debounce
\* timer or spawns an automatic request.
C4_ManualSuppressesAuto ==
    [][ManualInFlight =>
          /\ completion_debounce' \in {completion_debounce, None}
          /\ Len(reqs') > Len(reqs) => reqs'[Len(reqs')].trigger # "Automatic"]_vars

ResultReady(i) == i \in DOMAIN reqs /\ reqs[i].polling /\ reqs[i].chan # "empty"

Processed(i) == i \in DOMAIN reqs /\ ~reqs[i].polling

\* C5: the poller that receives the result of a request, or finds its
\* channel disconnected, clears the flag of the request's trigger, stale or
\* not; every delivered result is eventually received, and neither flag
\* stays set forever.
C5_FlagsCleared ==
    /\ [][\A i \in DOMAIN reqs : Processes(i) =>
             IF reqs[i].trigger = "Manual"
             THEN ~manual_completion_inflight'
             ELSE ~auto_completion_running']_vars
    /\ \A i \in 1..MaxReq : ResultReady(i) ~> Processed(i)
    /\ manual_completion_inflight ~> ~manual_completion_inflight
    /\ auto_completion_running ~> ~auto_completion_running

\* The result of a manual request that went stale without a text change
\* (the preload poller bumped the counter) was polled, and no flag is left set.
C5_Witness ==
    /\ \E i \in DOMAIN reqs :
          /\ reqs[i].trigger = "Manual" /\ ~reqs[i].polling
          /\ reqs[i].chan \in {"ok_text", "err_failed"}
          /\ completion_generation = Generation(i) + 1
          /\ reqs[i].context = completion_context
          /\ ~preload.polling /\ preload.chan = "ok"
    /\ ~manual_completion_inflight
    /\ ~auto_completion_running

\* The context has the fill-in-the-middle format with a non-empty prefix.
FimWithPrefix(context) ==
    /\ Len(context) > 3
    /\ context[1] = FIM_PREFIX
    /\ context[2] # FIM_SUFFIX
    /\ context[Len(context)] = FIM_MIDDLE

\* C6: a context in fill-in-the-middle format is completed with
\* min(50, max_completion_tokens) tokens.
C6_FimTokenClamp ==
    \A c \in calls :
        FimWithPrefix(reqs[c.req].context) =>
            c.max_tokens = Min(FIM_MAX_TOKENS, c.configured)

(***************************************************************************)
(* Claims about the model store.                                           *)
(***************************************************************************)
CompleteFile == {File(RemoteBytes), File(OldBytes)}

Returned == dl.pc = "done"

Transferred == Returned /\ dl.result = "ok" /\ dl.http_requests = 1

\* C7: at every point of download_with_progress, crashes and errors
\* included, the final path of every artifact is absent or holds the
\* complete bytes of a finished transfer.
C7_FinalPathAtomic ==
    \A n \in Names :
        exists(fs, output_path(n)) => fs[output_path(n)] \in CompleteFile

C9_CorruptCacheRecovery ==
    dl.entry = "Mismatch" =>
        /\ dl.pc = "request" =>
              /\ ~exists(fs, output_path(dl.name))
              /\ ~exists(fs, metadata_path(dl.name))
        /\ Returned /\ dl.result = "ok" =>
              /\ dl.http_requests = 1
              /\ exists(fs, output_path(dl.name))
              /\ exists(fs, metadata_path(dl.name))
              /\ is_downloaded(fs, dl.name)

C9_Witness ==
    /\ dl.entry = "Mismatch"
    /\ Transferred
    /\ CacheState(fs, dl.name) = "PresentVerified"

\* C10: a file without a valid sidecar is treated as an absent one:
\* is_downloaded is false and get_path is None for it, and
\* download_with_progress called on it never returns it as cached, has
\* removed it when it starts the transfer, and returns Ok only after a
\* transfer from scratch.
C10_UnverifiedIsAbsent ==
    /\ \A n \in Names :
          CacheState(fs, n) = "PresentUnverified" =>
              ~is_downloaded(fs, n) /\ get_path(fs, n) = None
    /\ dl.entry = "PresentUnverified" =>
          /\ dl.pc = "request" =>
                /\ ~exists(fs, output_path(dl.name))
                /\ ~exists(fs, metadata_path(dl.name))
          /\ Returned /\ dl.result = "ok" =>
                /\ dl.http_requests = 1
                /\ dl.downloaded_bytes = Len(RemoteBytes)
                /\ fs[output_path(dl.name)] = File(RemoteBytes)

C10_Witness ==
    /\ dl.entry = "PresentUnverified"
    /\ Transferred
    /\ fs[output_path(dl.name)] = File(RemoteBytes)
    /\ is_downloaded(fs, dl.name)

\* C11: a call of download_with_progress on an artifact that is
\* Present-Verified returns the cached path, hashes the file exactly once,
\* makes no network request and leaves the models directory unchanged; as
\* the directory is unchanged, the same holds for the call after it.
C11_IdempotentVerifiedCache ==
    /\ [](dl.entry = "PresentVerified" /\ Returned =>
             /\ dl.result = "ok"
             /\ dl.hashes = 1
             /\ dl.http_requests + dl.api_requests = 0)
    /\ [][dl.entry = "PresentVerified" \/ dl'.entry = "PresentVerified" =>
             fs' = fs]_vars

\* The hash gate makes its decision in this step.
GateDecides == dl.pc = "check" /\ dl'.pc \notin {"check", "crashed"}

\* C12: a completed transfer is rejected exactly when the response declared
\* a hash that differs from the hash of the transferred bytes; a rejection
\* deletes the temp file, fails the call, writes no sidecar and creates no
\* final file; without a declared hash the transfer is accepted.
C12_HashGate ==
    [][GateDecides =>
        LET name == dl.name
            declared == dl.header # None
            differs == declared /\ dl.header.digest # sha256(fs[temp_path(name)].bytes).digest
            rejected == dl'.pc = "done" /\ dl'.result = "err"
        IN  /\ rejected <=> differs
            /\ rejected =>
                  /\ ~exists(fs', temp_path(name))
                  /\ ~exists(fs', output_path(name))
                  /\ fs'[metadata_path(name)] = fs[metadata_path(name)]
            /\ ~rejected => dl'.pc = "rename" /\ fs' = fs]_vars

C12_Witness ==
    /\ Returned
    /\ dl.result = "err"
    /\ dl.downloaded_bytes = Len(RemoteBytes)
    /\ dl.header # None
    /\ dl.header.digest = sha256(OldBytes).digest
    /\ dl.header.quoted /\ dl.header.upper
    /\ ~exists(fs, temp_path(dl.name))
    /\ ~exists(fs, output_path(dl.name))

(***************************************************************************)
(* Claims about the LlmManager.                                            *)
(***************************************************************************)
\* The step is a call of LlmManager::complete.
CompleteStep == mcall'.n # mcall.n /\ mcall'.op = "complete"

EnsureFailures == {"llama.cpp not available", "download failed", "load failed"}

\* C13: when path resolution, download or load fails inside
\* ensure_model_loaded the slot is still empty on return and complete
\* returns the error; a complete that finds the slot empty goes through
\* path determination and load again.
C13_FailedLoadNotCached ==
    [][CompleteStep /\ mgr.loaded_model = None =>
        /\ mcall'.result \in EnsureFailures <=> mgr'.loaded_model = None
        /\ mcall'.result \in EnsureFailures \cup {"ok", "inference failed"}
        /\ mgr.llamacpp =>
              /\ mcall'.path # None \/ mcall'.downloads = 1
              /\ mcall'.path # None => mcall'.loads = 1]_vars

C13_Witness ==
    /\ mcall.op = "complete"
    /\ mcall.result = "load failed"
    /\ mcall.n >= 2
    /\ mcall.loads = 1
    /\ mgr.loaded_model = None

\* The model path the configuration selects.
ChosenPath(config) ==
    IF uses_override(config) THEN [some |-> config.local_model_path]
    ELSE IF parse(default_reference(config)) = None THEN None
    ELSE [some |-> output_path(parse(default_reference(config)).some)]

\* C14: a complete that succeeds runs against the model path and the
\* GPU-layer setting that the configuration installed at the time of the
\* call selects.
C14_NewConfigTakesEffect ==
    [][CompleteStep /\ mcall'.result = "ok" =>
        /\ [some |-> mgr'.loaded_model.source_path] = ChosenPath(mgr.config)
        /\ mgr'.loaded_model.n_gpu_layers = n_gpu_layers(mgr.config)]_vars

\* C15: the Host thread is never blocked inside llm_manager.lock() while a
\* worker holds the lock.
C15_HostNeverBlocks == host_wait = 0

\* C16: a loaded slot changes only by unload_model, and complete on a
\* loaded slot downloads, hashes and loads nothing and leaves the models
\* directory as it is.
C16_LoadedStaysLoaded ==
    [][mgr.loaded_model # None =>
        /\ mgr'.loaded_model # mgr.loaded_model =>
              mcall'.n # mcall.n /\ mcall'.op = "unload_model"
        /\ CompleteStep =>
              /\ mcall'.result \in {"ok", "inference failed"}
              /\ mcall'.downloads = 0 /\ mcall'.hashes = 0 /\ mcall'.loads = 0
              /\ fs' = fs]_vars

C16_Witness ==
    /\ mcall.op = "complete"
    /\ mcall.result = "inference failed"
    /\ mcall.loads = 0
    /\ mcall.n >= 3
    /\ mgr.loaded_model # None

RemoteWithEndpoint(config) ==
    config.provider # "Local" /\ ~config.endpoint_empty

\* C17: without the native backend, a remote provider with an endpoint is
\* Ready and complete does not fail with the backend-unavailable error.
C17_RemoteUsableWithoutBackend ==
    /\ [](~mgr.llamacpp /\ RemoteWithEndpoint(mgr.config) =>
             check_readiness(mgr, fs, custom_file).kind = "Ready")
    /\ [][CompleteStep /\ ~mgr.llamacpp /\ RemoteWithEndpoint(mgr.config) =>
             mcall'.result # "llama.cpp not available"]_vars

\* C18: check_readiness is Ready exactly when the provider is remote with
\* an endpoint, or local with the backend and either the configured
\* override path exists or the default reference of the device class is
\* verified-present; otherwise NeedsEndpoint, the backend-unavailable value,
\* or NeedsDownload naming the reference.
C18_Readiness ==
    LET c == mgr.config
        r == check_readiness(mgr, fs, custom_file)
        remote == c.provider # "Local"
        override_exists == /\ c.override_model_path
                           /\ c.local_model_path # <<>>
                           /\ path_exists(fs, custom_file, c.local_model_path)
        ready == \/ remote /\ ~c.endpoint_empty
                 \/ /\ ~remote
                    /\ mgr.llamacpp
                    /\ \/ override_exists
                       \/ is_model_downloaded(fs, default_reference(c))
    IN  /\ r.kind = "Ready" <=> ready
        /\ ~ready =>
              IF remote THEN r.kind = "NeedsEndpoint"
              ELSE IF ~mgr.llamacpp THEN r.kind = "MissingLlamaCli"
              ELSE /\ r.kind = "NeedsDownload"
                   /\ r.model_ref \in {[reference |-> default_reference(c)],
                                       [custom_path |-> c.local_model_path]}

\* The reference of the device class, read off the configuration.
DeviceClassReference(c) ==
    IF c.force_cpu_only THEN c.default_cpu_model ELSE c.default_gpu_model

\* C18, amended: with the local provider and the backend, a configured
\* override (flag set, path not empty) alone decides: Ready when its file
\* exists, else NeedsDownload naming the custom path, whatever the state of
\* the default reference; without an override, Ready exactly when the
\* default reference of the device class is verified-present, else
\* NeedsDownload naming it.
C18_ReadinessAmended ==
    LET c == mgr.config
        r == check_readiness(mgr, fs, custom_file)
        remote == c.provider # "Local"
        override == c.override_model_path /\ c.local_model_path # <<>>
    IN  IF remote
        THEN r.kind = IF c.endpoint_empty THEN "NeedsEndpoint" ELSE "Ready"
        ELSE IF ~mgr.llamacpp THEN r.kind = "MissingLlamaCli"
        ELSE IF override
        THEN IF path_exists(fs, custom_file, c.local_model_path)
             THEN r.kind = "Ready"
             ELSE /\ r.kind = "NeedsDownload"
                  /\ r.model_ref = [custom_path |-> c.local_model_path]
        ELSE IF is_model_downloaded(fs, DeviceClassReference(c))
        THEN r.kind = "Ready"
        ELSE /\ r.kind = "NeedsDownload"
             /\ r.model_ref = [reference |-> DeviceClassReference(c)]

\* An override is configured, its file is missing, and the default
\* reference is verified-present.
C18_Witness ==
    /\ mgr.config.provider = "Local"
    /\ mgr.llamacpp
    /\ mgr.config.override_model_path
    /\ mgr.config.local_model_path = CustomPath
    /\ ~custom_file
    /\ is_model_downloaded(fs, DeviceClassReference(mgr.config))
    /\ check_readiness(mgr, fs, custom_file).kind = "NeedsDownload"

\* C19: ensure_model_loaded on an empty slot takes the override path only
\* when an override is configured and its file is present; otherwise it
\* takes the default reference of the device class and downloads it
\* exactly when it is not verified-present.
C19_ModelPathChoice ==
    [][CompleteStep /\ mgr.llamacpp /\ mgr.loaded_model = None =>
        LET c == mgr.config
            override_present == /\ c.override_model_path
                                /\ c.local_model_path # <<>>
                                /\ path_exists(fs, custom_file, c.local_model_path)
            fallback == [c EXCEPT !.override_model_path = FALSE]
        IN  IF override_present
            THEN mcall'.path = [some |-> c.local_model_path] /\ mcall'.downloads = 0
            ELSE /\ mcall'.path # None => mcall'.path = ChosenPath(fallback)
                 /\ mcall'.downloads = 1 <=>
                       ~is_model_downloaded(fs, default_reference(c))]_vars

\* C19, amended: ensure_model_loaded on an empty slot takes the override
\* path whenever the override flag is set and the path is not empty,
\* whether or not a file exists there, and then downloads and hashes
\* nothing; otherwise it takes the default reference of the device class,
\* downloads it exactly when it is not verified-present, and fails when
\* the download fails.
C19_ModelPathChoiceAmended ==
    [][CompleteStep /\ mgr.llamacpp /\ mgr.loaded_model = None =>
        LET c == mgr.config
            reference == DeviceClassReference(c)
        IN  IF c.override_model_path /\ c.local_model_path # <<>>
            THEN /\ mcall'.path = [some |-> c.local_model_path]
                 /\ mcall'.downloads = 0 /\ mcall'.hashes = 0
                 /\ fs' = fs
            ELSE /\ mcall'.downloads = 1 <=> ~is_model_downloaded(fs, reference)
                 /\ mcall'.path # None =>
                       /\ reference.file # <<>>
                       /\ mcall'.path = [some |-> output_path(reference.file)]
                       /\ is_model_downloaded(fs', reference)
                 /\ mcall'.path = None => mcall'.result = "download failed"]_vars

\* The override path was taken although no file exists there.
C19_Witness ==
    /\ mcall.op = "complete"
    /\ mcall.path = [some |-> CustomPath]
    /\ mcall.result = "load failed"
    /\ ~custom_file
    /\ mgr.config.override_model_path
    /\ mgr.loaded_model = None

\* The poller of request i receives in this step.
Received(i) == reqs[i].polling /\ ~reqs'[i].polling

\* C20: when a poller receives, a result of a generation that is no longer
\* current changes neither the status text nor the toasts; a "Request
\* cancelled" error of the current generation clears the status and adds
\* no toast; an error of the current generation that is not a cancellation
\* sets the "Completion error" status and, for a manual request, adds the
\* failure toast.
C20_CancellationIsSilent ==
    [][\A i \in DOMAIN reqs : Received(i) =>
        LET r == reqs[i]
            current == r.generation = completion_generation
        IN  /\ ~current => status_label' = status_label /\ toasts' = toasts
            /\ current /\ r.chan = "err_cancelled" =>
                   status_label' = "" /\ toasts' = toasts
            /\ current /\ r.chan \in {"err_failed", "err_lock"} =>
                   /\ status_label' = "Completion error"
                   /\ r.trigger = "Manual" => "Completion failed" \in toasts'
                   /\ r.trigger # "Manual" => toasts' = toasts]_vars

\* The failure of a superseded request has been received and nothing was
\* shown for it.
C20_Witness ==
    \E i \in DOMAIN reqs :
        /\ ~reqs[i].polling
        /\ reqs[i].chan = "err_failed"
        /\ reqs[i].generation # completion_generation
        /\ \A a \in applied : a.req # i
        /\ status_label # "Completion error"
        /\ toasts = {}

(***************************************************************************)
(* Claims about generations, polling and the counter.                      *)
(***************************************************************************)
\* The step makes the Host apply the result of request i.
Applies(i) == \E a \in applied' \ applied : a.req = i

\* C21: no two spawned requests carry the same generation; the Host applies
\* a result only when its generation is the value of the counter, and every
\* result applied before it belongs to a strictly older generation, so at
\* most one result is applied per generation and never one for a
\* generation at or below an applied one.
C21_OneResultPerGeneration ==
    /\ [](\A i, j \in DOMAIN reqs : i # j => Generation(i) # Generation(j))
    /\ [][\A i \in DOMAIN reqs : Applies(i) =>
             /\ Generation(i) = completion_generation
             /\ \A a \in applied : Generation(a.req) < Generation(i)]_vars

\* The results of two requests were applied, one after the other.
C21_Witness ==
    \E a, b \in applied :
        /\ a.req # b.req
        /\ Generation(a.req) < Generation(b.req)
        /\ Generation(b.req) = completion_generation

\* The step is a call of bump_completion_generation.
BumpStep == counter'.returned # counter.returned \/ counter'.by # counter.by
            \/ counter'.value # counter.value

\* C25: every bump returns a value above every value returned before it,
\* the counter never decreases, and the handler passes on the value of the
\* counter after the increment.
C25_MonotoneCounter ==
    [][BumpStep =>
        /\ \A r \in counter.returned : LessU64(r, counter'.value)
        /\ ~LessU64(counter'.value, counter.value)
        /\ counter'.stamp = [some |-> counter'.value]]_vars

\* C25, amended: a bump moves the counter to its successor modulo 2^64:
\* strictly above the value before unless that was u64::MAX, where the
\* counter wraps to 0; the value always changes, and the handler passes on
\* the value of the counter after the increment.
C25_SuccessorModulo ==
    [][BumpStep =>
        /\ counter'.value # counter.value
        /\ counter.value # U64_MAX =>
              /\ LessU64(counter.value, counter'.value)
              /\ \A v \in CounterValues :
                    ~(LessU64(counter.value, v) /\ LessU64(v, counter'.value))
        /\ counter.value = U64_MAX => counter'.value = U64_ZERO
        /\ counter'.stamp = [some |-> counter'.value]
        /\ counter'.returned = counter.returned \cup {counter'.value}]_vars

\* The counter was bumped at u64::MAX and holds 0.
C25_Witness ==
    /\ counter.value = ToU64(1)
    /\ U64_ZERO \in counter.returned
    /\ counter.stamp = [some |-> counter.value]

\* The step is a run of the poller of request i that found nothing.
EmptyPoll(i) == reqs'[i].empty_polls # reqs[i].empty_polls

\* C22: an empty poll changes no Host state and the poller stays installed;
\* polling of a request ends only in a run that finds a result or a
\* disconnected channel, it never resumes and nothing is applied for the
\* request afterwards; a delivered result and a disconnected channel both
\* end the polling.
C22_PollingProtocol ==
    /\ [][\A i \in DOMAIN reqs :
             /\ EmptyPoll(i) =>
                   /\ reqs[i].chan = "empty"
                   /\ reqs'[i].polling
                   /\ UNCHANGED <<hostVars, applied, preload, host_wait>>
             /\ Processes(i) => reqs[i].chan # "empty"
             /\ ~reqs[i].polling => ~reqs'[i].polling /\ ~Applies(i)]_vars
    /\ \A i \in 1..FairReq :
          (i \in DOMAIN reqs /\ reqs[i].chan # "empty") ~> Processed(i)

\* The worker died without sending; the poller found nothing once, then
\* found the channel disconnected and stopped.
C22_Witness ==
    \E i \in DOMAIN reqs :
        /\ reqs[i].chan = "disconnected"
        /\ reqs[i].empty_polls = 1
        /\ ~reqs[i].polling
        /\ \A a \in applied : a.req # i

(***************************************************************************)
(* Claims about the progress events of download_with_progress.             *)
(***************************************************************************)
\* The place of a phase in a run.
PhaseRank(phase) ==
    CASE phase = "Preparing" -> 0
      [] phase = "VerifyingExisting" -> 1
      [] phase = "Downloading" -> 2
      [] phase = "Finished" -> 3

EventsOf(phase) == {k \in DOMAIN dl.events : dl.events[k].phase = phase}

\* C23: the events of a call start with the only Preparing event; then the
\* phases follow in the order VerifyingExisting, Downloading, Finished;
\* VerifyingExisting occurs only if the final file existed at the start of
\* the call; the byte counts of the Downloading events do not decrease;
\* Finished occurs at most once, as the last event, only in a call that
\* returns Ok, directly after the verification on a cache hit and after at
\* least one Downloading event otherwise; a call that returns Ok has
\* emitted Finished.
C23_ProgressSequence ==
    LET events == dl.events
        last == Len(events)
    IN  /\ events # <<>> =>
              /\ events[1] = DownloadProgress("Preparing", 0, None)
              /\ EventsOf("Preparing") = {1}
        /\ \A j, k \in DOMAIN events :
              j < k => PhaseRank(events[j].phase) <= PhaseRank(events[k].phase)
        /\ EventsOf("VerifyingExisting") # {} => dl.entry # "Absent"
        /\ \A j, k \in EventsOf("Downloading") :
              j < k => events[j].downloaded <= events[k].downloaded
        /\ Cardinality(EventsOf("Finished")) <= 1
        /\ EventsOf("Finished") # {} =>
              /\ EventsOf("Finished") = {last}
              /\ Returned /\ dl.result = "ok"
              /\ EventsOf("Downloading") = {} =>
                    dl.entry = "PresentVerified" /\ dl.http_requests = 0
              /\ EventsOf("Downloading") # {} => dl.http_requests = 1
        /\ Returned /\ dl.result = "ok" => EventsOf("Finished") # {}

\* A call found a file that failed verification after hashing, transferred
\* the artifact and finished.
C23_Witness ==
    /\ Returned /\ dl.result = "ok"
    /\ EventsOf("VerifyingExisting") # {}
    /\ Cardinality(EventsOf("Downloading")) = Len(RemoteBytes) + 1
    /\ dl.events[Len(dl.events)].phase = "Finished"

ParsedAsWritten == hf.op # "none" /\ ~Contains(hf.reference, " ")

\* The part of a path after its last '/'.
LastSegment(path) ==
    LET slashes == {i \in DOMAIN path : path[i] = "/"}
        from == IF slashes = {} THEN 0
                ELSE CHOOSE i \in slashes : \A j \in slashes : j <= i
    IN  SubSeq(path, from + 1, Len(path))

\* What the three surface forms stand for.
Parsed(owner, name, revision, file) ==
    [ok |-> TRUE, repo |-> owner \o <<"/">> \o name, revision |-> revision,
     file |-> file]

UrlOf(owner, name, revision, file) ==
    <<"https://huggingface.co/">> \o owner \o <<"/">> \o name \o <<"/resolve/">>
        \o revision \o <<"/">> \o file \o <<"?download=1">>

Yields(owner, name, revision, file) ==
    /\ hf.result = Parsed(owner, name, revision, file)
    /\ download_url(hf.result) = UrlOf(owner, name, revision, file)
    /\ filename(hf.result) = LastSegment(file)

\* C26: parse of 'owner/repo:file' yields (owner/repo, main, file), of
\* 'owner/repo@revision:file' yields (owner/repo, revision, file), of
\* 'owner/repo/path/to/file' yields (owner/repo, main, path/to/file), with
\* '/' allowed in revision and file; download_url embeds the three parts
\* as they are and filename is the last '/'-segment of file.
C26_ParseSurfaceForms ==
    ParsedAsWritten =>
        \A o \in RepoNames, n \in RepoNames, f \in FilePaths :
            /\ hf.reference = OwnerRepoFile(o, n, f) => Yields(o, n, MAIN, f)
            /\ hf.reference = OwnerRepoPath(o, n, f) => Yields(o, n, MAIN, f)
            /\ \A v \in Revisions :
                  hf.reference = OwnerRepoRevisionFile(o, n, v, f) =>
                      Yields(o, n, v, f)

\* 'ba/a@a/b:b/a' was parsed.
C26_Witness ==
    /\ hf.op = "download_model"
    /\ hf.reference = OwnerRepoRevisionFile(<<"b", "a">>, <<"a">>,
                                            <<"a", "/", "b">>, <<"b", "/", "a">>)
    /\ hf.result.ok
    /\ hf.result.revision = <<"a", "/", "b">>
    /\ filename(hf.result) = <<"a">>

\* The part of a reference before its first '@' or ':'.
RepoPart(s) ==
    LET markers == {i \in DOMAIN s : s[i] \in {"@", ":"}}
        upto == IF markers = {} THEN Len(s) + 1
                ELSE CHOOSE i \in markers : \A j \in markers : i <= j
    IN  SubSeq(s, 1, upto - 1)

Slashes(s) == Cardinality({i \in DOMAIN s : s[i] = "/"})

\* The reference has a ':file' part that is more than '/' characters.
HasExplicitFile(s) ==
    \E k \in DOMAIN s :
        /\ s[k] = ":"
        /\ \A j \in 1..(k - 1) : s[j] # ":"
        /\ \E i \in (k + 1)..Len(s) : s[i] # "/"

\* What parse was called on: download_llm_model trims the reference first.
ParseInput == IF hf.op = "download_llm_model" THEN trim(hf.reference)
              ELSE hf.reference

\* Some character other than '/' follows the second '/' of the part
\* before the first marker.
HasPathSegment(s) ==
    LET part == RepoPart(s) IN
    \E i \in DOMAIN part :
        /\ part[i] # "/"
        /\ Slashes(SubSeq(part, 1, i)) >= 2

\* The messages that tell that owner/repo is missing.
MissingOwnerRepo == {"Invalid HF repo format", "Empty Hugging Face reference"}

\* C27: parse fails with an owner/repo error whenever fewer than two
\* '/'-segments precede the first marker, and with the missing-filename
\* error whenever (two segments being there) no file segment is present:
\* no non-empty ':file' part and no path segment beyond owner/repo; after
\* a failure there is no model and the caller does not go on to the
\* downloader.
C27_ParseErrors ==
    /\ hf.op = "download_model" =>
          LET s == hf.reference IN
          /\ Slashes(RepoPart(s)) < 1 =>
                ~hf.result.ok /\ hf.result.err \in MissingOwnerRepo
          /\ Slashes(RepoPart(s)) >= 1 /\ ~HasExplicitFile(s) /\ ~HasPathSegment(s) =>
                hf.result = Err("Missing filename")
    /\ hf.op # "none" /\ (hf.result = None \/ ~hf.result.ok) => ~hf.started

\* C28: the repository of an accepted reference has exactly one '/', with
\* a non-empty owner before it and a non-empty name after it, and neither
\* '@' nor ':'.
C28_RepositoryShape ==
    hf.result # None /\ hf.result.ok =>
        LET repo == hf.result.repo IN
        /\ Slashes(repo) = 1
        /\ repo # <<>> /\ repo[1] # "/" /\ repo[Len(repo)] # "/"
        /\ \A i \in DOMAIN repo : repo[i] \notin {"@", ":"}

(***************************************************************************)
(* Claims about resolve_hf_alias.                                          *)
(***************************************************************************)
\* The listed names that contain the alias, letter case ignored, and end in
\* '.gguf'.
IsCandidate(name, alias) ==
    /\ str_contains(to_lowercase(name), to_lowercase(alias))
    /\ to_lowercase(name)[Len(name)] = ".gguf"

\* The name ends in the alias followed by '.gguf', letter case ignored.
IsExact(name, alias) ==
    /\ Len(name) = Len(alias) + 1 \/ Len(name) > Len(alias) + 1
    /\ \A i \in 1..Len(alias) :
          lower(name[Len(name) - 1 - Len(alias) + i]) = lower(alias[i])
    /\ lower(name[Len(name)]) = ".gguf"

\* The place in the listing of the file that resolution must return: the
\* first exact candidate if there is one, else the first of the shortest
\* candidates.
Winner(listing, alias) ==
    LET cands == {i \in DOMAIN listing : IsCandidate(listing[i], alias)}
        exacts == {i \in cands : IsExact(listing[i], alias)}
        pool == IF exacts # {} THEN exacts
                ELSE {i \in cands : \A j \in cands :
                          byte_len(listing[i]) <= byte_len(listing[j])}
    IN  CHOOSE i \in pool : \A j \in pool : i <= j

\* C29: once the listing has arrived, resolution fails exactly when no
\* listed name contains the alias (letter case ignored) and ends in
\* '.gguf'; otherwise the result is a candidate of the listing, one that
\* ends in the alias followed by '.gguf' if there is such a candidate and
\* else one of the shortest, and among equals the one listed first: the
\* listing and the alias determine it.
C29_AliasResolution ==
    resolver.resolved /\ resolver.result # Err("Failed to resolve alias") =>
        LET listing == resolver.listing
            alias == resolver.alias
            cands == {i \in DOMAIN listing : IsCandidate(listing[i], alias)}
        IN  IF cands = {} THEN ~resolver.result.ok
            ELSE /\ resolver.result.ok
                 /\ \E i \in cands : resolver.result.name = listing[i]
                 /\ (\E i \in cands : IsExact(listing[i], alias)) =>
                        IsExact(resolver.result.name, alias)
                 /\ (\A i \in cands : ~IsExact(listing[i], alias)) =>
                        \A j \in cands :
                            byte_len(resolver.result.name) <= byte_len(listing[j])
                 /\ resolver.result.name = listing[Winner(listing, alias)]

\* A longer name that ends in the alias wins over a shorter candidate
\* listed before it that only contains the alias.
C29_Witness ==
    /\ resolver.resolved
    /\ resolver.alias = <<"A">>
    /\ resolver.listing = <<<<"a", "b", ".gguf">>, <<"b", "b", "a", ".GGUF">>>>
    /\ resolver.result = [ok |-> TRUE, name |-> <<"b", "b", "a", ".GGUF">>]

(***************************************************************************)
(* Claims about the ghost text of a Document.                              *)
(***************************************************************************)
\* The tagged characters lie between the two marks of the one ghost_range,
\* and there are none without a ghost_range.
OneGhostRange ==
    \A i \in DOMAIN document.text :
        document.text[i].ghost =>
            /\ document.ghost_range # None
            /\ document.ghost_range.some.start < i
            /\ i <= document.ghost_range.some.end

\* ghost_is_active holds exactly from an insert of non-empty text to the
\* next accept or dismiss.
ActiveBetweenInsertAndEnd ==
    ghost_is_active(document) <=> document.ghost_op = "insert"

DismissedRightAfterInsert ==
    document.last = "dismiss" /\ document.prev = "insert"

\* C30: dismiss_ghost_text right after insert_ghost_text(t) leaves the text
\* of the buffer as it was before the insert; there is at most one ghost
\* range at any time; ghost_is_active is true exactly between an insert of
\* non-empty text and the next accept or dismiss.
C30_GhostRoundTrip ==
    /\ DismissedRightAfterInsert => current_text(document) = document.before
    /\ OneGhostRange
    /\ ActiveBetweenInsertAndEnd

\* C30, amended: dismiss_ghost_text right after insert_ghost_text(t) leaves
\* the text of the buffer as it was before the insert without the ghost
\* range that was active then (the insert dismisses it first), and so as
\* it was before the insert when no ghost text was active; there is at
\* most one ghost range at any time; ghost_is_active is true exactly
\* between an insert of non-empty text and the next accept or dismiss.
C30_GhostRoundTripAmended ==
    /\ DismissedRightAfterInsert =>
          current_text(document) =
              IF document.before_range = None THEN document.before
              ELSE SubSeq(document.before, 1, document.before_range.some.start)
                     \o SubSeq(document.before, document.before_range.some.end + 1,
                               Len(document.before))
    /\ OneGhostRange
    /\ ActiveBetweenInsertAndEnd

\* "gg" was put between "x" and "y" and dismissed.
C30_Witness ==
    /\ DismissedRightAfterInsert
    /\ document.arg = <<"g", "g">>
    /\ document.before_range = None
    /\ document.before = <<"x", "y">>
    /\ current_text(document) = <<"x", "y">>
    /\ document.cursor = 1
    /\ ~ghost_is_active(document)

(***************************************************************************)
(* Claims about the steps of ensure_model_loaded.                          *)
(***************************************************************************)
\* C31: one ensure_model_loaded asks the registry for the listing of the
\* repository at most once, and its cache check and its download (or its
\* get_path) use the same resolved file name.
C31_ResolvedOnce ==
    /\ ensure.listings <= 1
    /\ ensure.checked # None /\ ensure.fetched # None =>
          ensure.checked = ensure.fetched

(***************************************************************************)
(* Claims about the lock around the LlmManager.                            *)
(***************************************************************************)
\* The requests whose worker is inside LlmManager::complete.
InsideComplete == {i \in DOMAIN reqs : reqs[i].pc = "complete"}

PreloadInsideComplete == preload.pc = "complete"

\* At most one thread is inside complete, and it is the holder of the lock.
OneInsideComplete ==
    /\ Cardinality(InsideComplete) + (IF PreloadInsideComplete THEN 1 ELSE 0) <= 1
    /\ \A i \in InsideComplete : llm_lock = i
    /\ PreloadInsideComplete => llm_lock = -1

\* The configuration of the manager changes in this step.
ConfigUpdated == max_completion_tokens' # max_completion_tokens

\* C32: at most one thread at a time is inside LlmManager::complete
\* (download, load and inference), so the calls of different requests never
\* overlap, and the configuration of the manager is never changed while a
\* thread is inside complete.
C32_EngineMutualExclusion ==
    /\ []OneInsideComplete
    /\ [][ConfigUpdated => InsideComplete = {} /\ ~PreloadInsideComplete]_vars

\* A worker is inside complete while another worker, the preload worker
\* and the Host wait for the lock.
C32_Witness ==
    /\ \E i \in InsideComplete : \E j \in DOMAIN reqs : reqs[j].pc = "lock"
    /\ preload.pc = "lock"
    /\ host_wait # 0


\* The pending debounce timeout fires in this step, no manual request is in
\* flight, and the generation the timeout carries is no longer the counter:
\* the callback calls request_llm_completion_with_generation with a stale
\* generation.
StaleTimerFires ==
    /\ completion_debounce # None
    /\ completion_debounce' = None
    /\ ~manual_completion_inflight
    /\ completion_debounce.generation # completion_generation

\* C34: request_llm_completion_with_generation called with a generation
\* that is not the counter returns at once: no request is spawned and the
\* two flags, the counter and the status label are as before the call.
C34_StaleRequestIsNoOp ==
    [][StaleTimerFires =>
          UNCHANGED <<reqs, manual_completion_inflight, auto_completion_running,
                      completion_generation, status_label>>]_vars

\* A timeout scheduled by a text change is due after a manual request
\* bumped the counter and was processed: the call about to be made carries
\* a stale generation.
C34_Witness ==
    /\ HostIdle
    /\ completion_debounce # None
    /\ completion_debounce.due <= now
    /\ completion_debounce.generation # completion_generation
    /\ ~manual_completion_inflight
    /\ \E i \in DOMAIN reqs : reqs[i].trigger = "Manual" /\ ~reqs[i].polling


\* glib holds at most one debounce timeout, and it is the one whose
\* SourceId is stored in completion_debounce.
OneTimerPending ==
    /\ Cardinality(supp.sources) <= 1
    /\ (supp.debounce = None) <=> (supp.sources = {})
    /\ supp.debounce # None => supp.debounce \in supp.sources

\* handle_text_change runs past its guard in this step.
TextChangeHandled == supp'.handled = supp.handled + 1

\* The callback of a timeout runs in this step.
TimeoutFired == supp'.fired = supp.fired + 1

\* C33: at most one debounce timeout is pending at any time; a text change
\* cancels the pending timeout, bumps the generation and leaves exactly one
\* timeout, which carries the new generation; the callback of a timeout
\* leaves completion_debounce and last_completion_schedule cleared.
C33_OneDebounceTimer ==
    /\ []OneTimerPending
    /\ [][TextChangeHandled =>
             /\ supp'.generation = supp.generation + 1
             /\ supp'.sources \cap supp.sources = {}
             /\ Cardinality(supp'.sources) = 1
             /\ \A s \in supp'.sources :
                   s.generation = supp'.generation /\ supp'.debounce = s]_vars
    /\ [][TimeoutFired =>
             /\ supp'.debounce = None
             /\ supp'.last = None
             /\ supp'.sources = {}]_vars

\* Two text changes created two timeouts; one of them has fired and none is
\* pending, so the other was cancelled by the second change.
C33_Witness ==
    /\ supp.op = "timeout"
    /\ supp.handled = 2 /\ supp.generation = 2 /\ supp.fired = 1
    /\ supp.sources = {} /\ supp.debounce = None

\* The handlers whose buffer changes are all made inside
\* with_suppressed_completion, and the handler of a cursor move.
SuppressedOnly == {"insert", "cancel", "mark-set"}

\* C39: the buffer changes the Host makes inside with_suppressed_completion
\* run handle_text_change as a no-op: inserting or dismissing ghost text
\* leaves the generation and the debounce timeout as they were, the ghost
\* text inserted is shown after the insert, accepting bumps the
\* generation once (by accept_current_completion itself), a text change is
\* handled once although its dismiss changes the buffer again, and the
\* suppression depth is 0 after every handler.
C39_SuppressedChanges ==
    /\ [](supp.depth = 0)
    /\ [][supp'.op \in SuppressedOnly =>
             /\ supp'.generation = supp.generation
             /\ supp'.debounce = supp.debounce
             /\ supp'.sources = supp.sources
             /\ supp'.last = supp.last
             /\ supp'.handled = supp.handled]_vars
    /\ [][supp'.op = "insert" => supp'.ghost]_vars
    /\ [][supp'.op = "accept" =>
             /\ supp'.generation = supp.generation + 1
             /\ supp'.handled = supp.handled
             /\ ~supp'.ghost]_vars
    /\ [][supp'.op = "changed" =>
             /\ supp'.generation = supp.generation + 1
             /\ supp'.handled = supp.handled + 1]_vars

\* Ghost text was inserted under suppression while a debounce timeout was
\* pending; the timeout is still pending and the ghost text is shown.
C39_Witness ==
    /\ supp.op = "insert"
    /\ supp.ghost
    /\ supp.deepest = 1 /\ supp.depth = 0
    /\ supp.debounce # None /\ supp.debounce \in supp.sources


\* The call created its temp file: the first Downloading event follows
\* File::create.
TempCreated == \E k \in DOMAIN dl.events : dl.events[k].phase = "Downloading"

ReturnedError == dl.pc = "done" /\ dl.result = "err"

\* C36: when download_with_progress returns an error after it created the
\* temp file (read or write error, hash mismatch, rename failure), no file
\* is left at the temp path, and the step that returns the error writes no
\* sidecar.
C36_ErrorDiscardsTemp ==
    /\ [](ReturnedError /\ TempCreated => ~exists(fs, temp_path(dl.name)))
    /\ [][ReturnedError' /\ TempCreated =>
             fs'[metadata_path(dl.name)] = fs[metadata_path(dl.name)]]_vars


\* The settings as built in: the local provider, no override path, the two
\* default references of DEFAULT_GPU_MODEL and DEFAULT_CPU_MODEL.
BuiltInDefaults(config) ==
    /\ config.provider = "Local"
    /\ ~config.override_model_path
    /\ config.default_gpu_model = DefaultConfig.default_gpu_model
    /\ config.default_cpu_model = DefaultConfig.default_cpu_model

\* C38: with the built-in settings and either value of force_cpu_only,
\* when check_readiness answers NeedsDownload, a download of the default
\* reference whose transfer succeeds returns Ok, check_readiness then
\* answers Ready, and ensure_model_loaded reaches the load step.
C38_DefaultsDownloadable ==
    (/\ BuiltInDefaults(mgr.config)
     /\ mgr.llamacpp
     /\ mgr.loaded_model = None
     /\ check_readiness(mgr, fs, custom_file).kind = "NeedsDownload")
    => LET d == download_model(fs, default_reference(mgr.config), TRUE) IN
       /\ d.ok
       /\ check_readiness(mgr, d.disk, custom_file).kind = "Ready"
       /\ ensure_model_loaded(mgr, d.disk, custom_file, TRUE, TRUE).loads = 1


\* The artifact at the final path of model is the one served for model.
HoldsArtifactOf(disk, model) ==
    disk[output_path(filename(model))] = File(served(model))

\* C37: references that differ in repository, revision or directory path
\* do not share a cache entry: is_downloaded and get_path report a
\* reference present only when the artifact at its path was downloaded for
\* it, and a download leaves the artifacts of other references in place.
C37_CacheEntriesApart ==
    /\ [](cache.op \in {"is_downloaded", "get_path"} /\ cache.result = "present"
            => HoldsArtifactOf(cache.disk, cache.model))
    /\ [][cache'.op = "download" =>
             \A other \in CacheModels \ {cache'.model} :
                 HoldsArtifactOf(cache.disk, other)
                     => HoldsArtifactOf(cache'.disk, other)]_vars


\* The final path holds the whole body the registry serves.
FinalIsComplete == xfer.out # 0 => xfer.inodes[xfer.out] = RemoteBytes

\* A sidecar is written in this step.
SidecarWritten == xfer'.meta # Absent /\ xfer'.meta # xfer.meta

\* C35: with two calls of download_with_progress for the same file running
\* at the same time, the final path never holds partial or corrupted
\* content, and no sidecar is written whose hash is not the hash of the
\* bytes at the final path.
C35_ConcurrentDownloads ==
    /\ []FinalIsComplete
    /\ [][SidecarWritten =>
             /\ xfer'.out # 0
             /\ xfer'.meta.sha256 = [digest |-> xfer'.inodes[xfer'.out]]]_vars


\* Request i is being polled and its generation is the counter.
Latest(i) ==
    /\ i \in DOMAIN reqs
    /\ reqs[i].polling
    /\ Generation(i) = completion_generation

Superseded(i) == i \in DOMAIN reqs /\ Generation(i) # completion_generation

\* What the Host does with the result of request i when it is current.
ResultShown(i) ==
    /\ reqs[i].chan = "ok_text" => ghost'.active /\ ghost'.req = i
    /\ reqs[i].chan \in {"err_failed", "err_lock"} => status_label' = "Completion error"
    /\ IF reqs[i].trigger = "Manual"
       THEN ~manual_completion_inflight' ELSE ~auto_completion_running'

\* C40: a request spawned with the current generation is eventually
\* processed by the Host unless the generation is bumped first, also with
\* the workers of superseded requests queued on the lock; when it is
\* processed while current, its text is shown as ghost text or its error
\* is reported, and the flag of its trigger is cleared.
C40_LatestRequestServed ==
    /\ \A i \in 1..MaxReq : Latest(i) ~> (Processed(i) \/ Superseded(i))
    /\ [][\A i \in DOMAIN reqs :
             Processes(i) /\ Generation(i) = completion_generation
                 => ResultShown(i)]_vars

\* The result of the latest request is shown as ghost text while the
\* worker of an earlier, superseded request has not yet left the lock
\* queue.
C40_Witness ==
    \E i, j \in DOMAIN reqs :
        /\ j < i
        /\ Generation(i) = completion_generation
        /\ ghost.active /\ ghost.req = i
        /\ ~reqs[i].polling
        /\ reqs[j].pc = "lock"

====
